---- MODULE Spec2Model ----
(***************************************************************************)
(* The notification service of ASUClassTrackerBackend                      *)
(* (services/notificationService.js, kept as src/unnamed/part_001): the    *)
(* polling cycle (monitorClasses), the per-record check                    *)
(* (processNotification), the rate-limited script queue (getClassStatus,   *)
(* processScriptQueue, executeClassScript) and the email dispatch.         *)
(*                                                                         *)
(* Node runs one handler at a time; every action below is one handler run  *)
(* from the event that resumes it to its next await.  Time is kept as the  *)
(* remaining milliseconds of every pending timer; Advance lets time pass   *)
(* to the next timer expiry.                                               *)
(***************************************************************************)
EXTENDS Integers, Sequences, FiniteSets, TLC

\* ---------------------------------------------------------------- bounds
\* Tracking records in the store.
NumRecords == 3
\* this.batchSize (5 in the source, line 58), scaled down with NumRecords so
\* that a cycle has several batches and a batch several records.
BatchSize == 2
\* lookupClass requests the API may have in hand at once.
MaxRequests == 2
\* Classes the users create.
MaxClasses == 2
\* Polling cycles a run may start.
MaxCycles == 2
\* Times the worker is started again.
MaxRefills == 1
\* Calls of start() that come back at one of its tests.
MaxEarlyReturns == 2
\* The largest maxRetries a caller other than startServer passes.
MaxHealthRetries == 2
\* The step of the user controller's clock, and the time it is followed for.
Tick == 300000
MaxClock == 900000

\* ------------------------------------------------------ program constants
MaxRetries == 3
MaxConcurrentScripts == 1
MinScriptInterval == 2000
CheckInterval == 300000
BatchDelay == 1000
BackoffBase == 3000
JitterMax == 1000
\* checkDatabaseConnection(maxRetries = 5, ...)
DefaultMaxRetries == 5
\* Date.now() + 10 * 60 * 1000
ResetWindow == 600000
\* password.length < 6
MinPasswordLength == 6

Records == 1..NumRecords
Cycles == 1..MaxCycles
Requests == 1..MaxRequests
ClassIds == 1..MaxClasses
NULL == "null"

\* Math.random() * 1000 lies in [0, 1000): its extreme whole milliseconds.
Jitters == {0, JitterMax - 1}

\* seatStatus values a lookup prints.
SeatStatuses == {"Open", "Closed"}
\* The value that stands for an absent field.
Sentinel == "N/A"
\* What the seatStatus of a parsed record without an error field may be: the
\* poller takes the record as it is printed.
Parsed == SeatStatuses \cup {Sentinel}
\* How one run of the script ends: a parsed record with a seatStatus, a parsed
\* record with an error field, unparseable output, a failed process, the timeout.
Outcomes == SeatStatuses \cup {"error", "parse", "fail", "timeout"}
\* The ends executeClassScript's catch block sees.
Retryable == {"parse", "fail", "timeout"}

VARIABLES
    isRunning,           \* this.isRunning
    tmpWritable,         \* mkdirSync under /tmp succeeds
    tempDirs,            \* the /tmp/playwright_process_<uniqueId> directories that exist
    startPc,             \* start(): "idle", "init" (awaiting the backfill), "done"
    emailTransporter,    \* this.emailTransporter is set (credentials given)
    db,                  \* the Notification collection: record id -> document
    cycleCount,          \* this.cycleCount
    mon,                 \* monitorClasses invocations, by cycle number
    monitoringTimer,     \* this.monitoringTimer: the cycle whose timer it holds, 0 if none
    proc,                \* processNotification invocations, by cycle and record
    scriptCallQueue,     \* this.scriptCallQueue
    currentScriptCount,  \* this.currentScriptCount
    sinceLastStart,      \* Date.now() - this.lastScriptStartTime, capped at MinScriptInterval
    running,             \* executeClassScript invocations awaiting execAsync
    backoff,             \* pending retry timers of executeClassScript
    loopPc,              \* processScriptQueue: "off", "sleep", "spacing", "exited", "crashed"
    loopLeft,            \* ms left of the loop's pending sleep
    lastGap,             \* history: sinceLastStart at the latest launch
    launches,            \* history: launches of each request still outstanding
    edges,               \* history: per record, first updates that replaced a stored
                         \* Closed by an observed Open
    fired,               \* history: per record, times the notify branch was taken
    mailAttempts,        \* history: per record, calls of sendMail
    mailFailed,          \* history: the record's latest email send failed and no
                         \* Closed observation was stored since
    invalid,            \* records whose populate() finds no user or no class
    skipped,             \* history: records whose check in the current cycle ended
                         \* without its updates (processNotification returned null)
    cycleErrors,         \* history: cycles that ended in the catch of monitorClasses
    lookupReqs,          \* lookupClass requests awaiting their exec of the script
    classDocs,           \* the Class collection: class id -> seatStatus, "none" if absent
    notifications,       \* the Notification collection as the API and the backfill
                         \* fill it: its documents in insertion order
    createPc,            \* createClass requests, by the class they create
    deletePc,            \* deleteClass requests, by class
    fill,                \* initializeNotificationTracking of the worker
    ownerless,           \* the classes whose user_id populates to null
    refills,             \* the times the backfill was run again
    loop2,               \* processScriptQueue as a second start() calls it
    createdAt,           \* per record: the cycle count when its document was
                         \* created, -1 while there is no such document
    visits,              \* history: per cycle and record, the calls of
                         \* processNotification
    models,              \* Class, User and Notification are set (the imports worked)
    earlyReturns,        \* history: the calls of start() that returned at one of
                         \* its two tests
    healthCheck,         \* checkDatabaseConnection as startServer calls it
    user,                \* the User document of the account the requests are about
    clock,               \* Date.now() as the user controller reads it
    forgot,              \* forgotPassword requests
    reset                \* resetPassword requests

vars == <<isRunning, tmpWritable, tempDirs, startPc, emailTransporter, db, cycleCount, mon, monitoringTimer,
          proc, scriptCallQueue, currentScriptCount, sinceLastStart, running, backoff,
          loopPc, loopLeft, lastGap, launches, edges, fired, mailAttempts, mailFailed,
          invalid, skipped, cycleErrors, lookupReqs, classDocs, notifications,
          createPc, deletePc, fill, ownerless, refills, loop2, createdAt, visits,
          models, earlyReturns, healthCheck, user, clock, forgot, reset>>

\* The state of the user controller.
auth == <<user, clock, forgot, reset>>

\* The notification service and the store of the classes and tracking records.
tracker == <<isRunning, tmpWritable, tempDirs, startPc, emailTransporter, db, cycleCount,
             mon, monitoringTimer, proc, scriptCallQueue, currentScriptCount,
             sinceLastStart, running, backoff, loopPc, loopLeft, lastGap, launches,
             edges, fired, mailAttempts, mailFailed, invalid, skipped, cycleErrors,
             lookupReqs, classDocs, notifications, createPc, deletePc, fill,
             ownerless, refills, loop2, createdAt, visits, models, earlyReturns>>

\* What the poller of the checks above never touches.
ext == <<tmpWritable, ownerless, refills, cycleErrors, lookupReqs, classDocs, notifications, createPc, deletePc, fill,
         createdAt, visits, models, earlyReturns, healthCheck, auth>>

\* What the handlers of the API and the backfill never touch.
poller == <<isRunning, tmpWritable, tempDirs, startPc, emailTransporter, db, cycleCount, mon, monitoringTimer,
            proc, scriptCallQueue, currentScriptCount, sinceLastStart, running,
            backoff, loopPc, loopLeft, lastGap, launches, edges, fired, mailAttempts,
            mailFailed, invalid, skipped, cycleErrors, lookupReqs, ownerless, refills,
            loop2, createdAt, visits, models, earlyReturns, healthCheck, auth>>

\* ------------------------------------------------------------- helpers
Min(S) == CHOOSE x \in S : \A y \in S : x <= y

\* new Date(): the clock is read as the number of the cycle in progress, the
\* coarsest reading that still orders the writes of successive cycles.
Now == cycleCount

\* notificationSchema defaults, as handleClassAdded and the backfill create it.
NewNotification ==
    [last_status |-> "Closed", last_checked |-> 0, notification_sent |-> 0,
     notification_count |-> 0, is_active |-> TRUE]

NoProc == [pc |-> "none", last_status |-> NULL, notification_count |-> 0, obs |-> NULL]
NoMon == [pc |-> "none", batch |-> 0, total |-> 0, left |-> 0]

\* (variant) the query without its filter
ActiveUnfiltered == Records

\* Notification.find({ is_active: true }), in insertion order.
Active == {r \in Records : db[r].is_active}

\* Math.ceil(totalNotifications / this.batchSize)
TotalBatches(n) == (n + BatchSize - 1) \div BatchSize

\* (variant) the page read without its limit
PageUnlimited(b) ==
    {r \in Active :
        LET pos == Cardinality({q \in Active : q < r})
        IN  pos >= b * BatchSize}

\* .skip(batch * this.batchSize).limit(this.batchSize) over the active records
Page(b) ==
    {r \in Active :
        LET pos == Cardinality({q \in Active : q < r})
        IN  pos >= b * BatchSize /\ pos < (b + 1) * BatchSize}

\* The records of a set in insertion order.
RECURSIVE InOrder(_)
InOrder(S) == IF S = {} THEN <<>> ELSE <<Min(S)>> \o InOrder(S \ {Min(S)})


\* ------------------------------------------------- the script queue
\* (variant) the admission test without the concurrency limit
CanDispatchUnlimited ==
    Len(scriptCallQueue) > 0

\* (variant) the concurrency limit compared off by one
CanDispatchStrict ==
    Len(scriptCallQueue) > 0 /\ currentScriptCount < MaxConcurrentScripts - 1

\* processScriptQueue's admission test.
CanDispatch ==
    Len(scriptCallQueue) > 0 /\ currentScriptCount < MaxConcurrentScripts

\* (variant) no sleep before a launch
SpacingDelayNone(timeSinceLastStart) == 0

\* The sleep before a launch: minScriptInterval - timeSinceLastStart, 0 when
\* the interval has already passed.
SpacingDelay(timeSinceLastStart) ==
    IF timeSinceLastStart < MinScriptInterval
    THEN MinScriptInterval - timeSinceLastStart
    ELSE 0

\* (variant) an error field handled like a thrown error
ClassifyErrorRetried(outcome, retries) ==
    IF outcome \in Parsed THEN "resolve"
    ELSE IF retries < MaxRetries THEN "retry"
    ELSE "null"

\* (variant) the retry test off by one
ClassifyOneMore(outcome, retries) ==
    IF outcome \in Parsed THEN "resolve"
    ELSE IF outcome = "error" THEN "null"
    ELSE IF retries <= MaxRetries THEN "retry"
    ELSE "null"

\* executeClassScript's verdict on one run: "resolve" (resolve(classData)),
\* "null" (resolve(null)) or "retry" (the re-enqueue timer).
Classify(outcome, retries) ==
    IF outcome \in Parsed THEN "resolve"
    ELSE IF outcome = "error" THEN "null"
    ELSE IF retries < MaxRetries THEN "retry"
    ELSE "null"

\* (variant) linear instead of exponential backoff
RetryDelayLinear(retries, jitter) == (retries + 1) * BackoffBase + jitter

\* Math.pow(2, retries) * 3000 + Math.random() * 1000
RetryDelay(retries, jitter) == (2 ^ retries) * BackoffBase + jitter

\* (variant) Promise.race instead of Promise.allSettled
BatchSettledAny(p, c) == \E r \in Records : p[<<c, r>>].pc = "none"

\* await Promise.allSettled(batchPromises): every processNotification of the
\* cycle has returned (p is the proc table the handler leaves).
BatchSettled(p, c) == \A r \in Records : p[<<c, r>>].pc = "none"

\* (variant) the next batch without the pause
MonAfterNoDelay(p, c) ==
    IF mon[c].pc = "gather" /\ BatchSettled(p, c)
    THEN [mon EXCEPT ![c] = [@ EXCEPT !.pc = "delay", !.left = 0]]
    ELSE mon

\* monitorClasses resumed by the settling of its batch: it goes on to
\* sleep(1000) in the same turn of the event loop.
MonAfter(p, c) ==
    IF mon[c].pc = "gather" /\ BatchSettled(p, c)
    THEN [mon EXCEPT ![c] = [@ EXCEPT !.pc = "delay", !.left = BatchDelay]]
    ELSE mon

\* The launch at the end of an admission: shift(), currentScriptCount++,
\* lastScriptStartTime = Date.now(), executeClassScript up to its await of
\* execAsync; then the loop's sleep(500).
\* uniqueId, from Date.now() and Math.random(): one per invocation, named here
\* by the request the invocation serves.
TempDir(e) == <<e.cyc, e.rec, e.retries>>

\* executeClassScript makes its directory before it runs the script; a failing
\* mkdirSync is logged and the script runs all the same.
MakeTempDir(e) ==
    IF tmpWritable THEN tempDirs \cup {TempDir(e)} ELSE tempDirs

\* The rm -rf of the directory follows the await of execAsync inside the try
\* block: it runs when the process ended with exit code 0, before the output
\* is parsed, and is skipped when execAsync rejected (non-zero exit, kill at
\* the timeout), the catch block and the finally block having no removal.
CleanUp(x, outcome) ==
    IF outcome \in {"fail", "timeout"} THEN tempDirs ELSE tempDirs \ {TempDir(x)}

\* (variant) pop() instead of shift()
LaunchLast ==
    LET e == scriptCallQueue[Len(scriptCallQueue)]
    IN  /\ scriptCallQueue' = SubSeq(scriptCallQueue, 1, Len(scriptCallQueue) - 1)
        /\ currentScriptCount' = currentScriptCount + 1
        /\ sinceLastStart' = 0
        /\ running' = running \cup
               {[cyc |-> e.cyc, rec |-> e.rec, retries |-> e.retries]}
        /\ lastGap' = sinceLastStart
        /\ launches' = [launches EXCEPT ![<<e.cyc, e.rec>>] = @ + 1]
        /\ loopPc' = "sleep"
        /\ loopLeft' = 0
        /\ tempDirs' = MakeTempDir(e)

\* (variant) the head of the queue read without shift()
LaunchKeepsEntry ==
    LET e == Head(scriptCallQueue)
    IN  /\ scriptCallQueue' = scriptCallQueue
        /\ currentScriptCount' = currentScriptCount + 1
        /\ sinceLastStart' = 0
        /\ running' = running \cup
               {[cyc |-> e.cyc, rec |-> e.rec, retries |-> e.retries]}
        /\ lastGap' = sinceLastStart
        /\ launches' = [launches EXCEPT ![<<e.cyc, e.rec>>] = @ + 1]
        /\ loopPc' = "sleep"
        /\ loopLeft' = 0
        /\ tempDirs' = MakeTempDir(e)

\* The dispatch of processScriptQueue: shift(), the counters, and
\* executeClassScript up to its await of execAsync.
Launch ==
    LET e == Head(scriptCallQueue)
    IN  /\ scriptCallQueue' = Tail(scriptCallQueue)
        /\ currentScriptCount' = currentScriptCount + 1
        /\ sinceLastStart' = 0
        /\ running' = running \cup
               {[cyc |-> e.cyc, rec |-> e.rec, retries |-> e.retries]}
        /\ lastGap' = sinceLastStart
        /\ launches' = [launches EXCEPT ![<<e.cyc, e.rec>>] = @ + 1]
        /\ loopPc' = "sleep"
        /\ loopLeft' = 0
        /\ tempDirs' = MakeTempDir(e)

\* (variant) while (true) in place of while (this.isRunning)
LoopWakeForever ==
    /\ loopPc = "sleep"
    /\ IF ~CanDispatch
       THEN /\ loopPc' = "sleep"
            /\ loopLeft' = 0
            /\ UNCHANGED <<scriptCallQueue, currentScriptCount, sinceLastStart,
                           running, lastGap, launches, tempDirs>>
       ELSE IF SpacingDelay(sinceLastStart) > 0
       THEN /\ loopPc' = "spacing"
            /\ loopLeft' = SpacingDelay(sinceLastStart)
            /\ UNCHANGED <<scriptCallQueue, currentScriptCount, sinceLastStart,
                           running, lastGap, launches, tempDirs>>
       ELSE Launch
    /\ UNCHANGED <<isRunning, startPc, emailTransporter, ext, loop2, invalid, skipped, db, cycleCount, mon,
                   monitoringTimer, proc, backoff, mailFailed, edges, fired, mailAttempts>>

\* One turn of processScriptQueue's while loop, from the end of sleep(500).
LoopWake ==
    /\ loopPc = "sleep"
    /\ IF ~isRunning
       THEN /\ loopPc' = "exited"
            /\ UNCHANGED <<loopLeft, scriptCallQueue, currentScriptCount,
                           sinceLastStart, running, lastGap, launches, tempDirs>>
       ELSE IF ~CanDispatch
       THEN /\ loopPc' = "sleep"
            /\ loopLeft' = 0
            /\ UNCHANGED <<scriptCallQueue, currentScriptCount, sinceLastStart,
                           running, lastGap, launches, tempDirs>>
       ELSE IF SpacingDelay(sinceLastStart) > 0
       THEN /\ loopPc' = "spacing"
            /\ loopLeft' = SpacingDelay(sinceLastStart)
            /\ UNCHANGED <<scriptCallQueue, currentScriptCount, sinceLastStart,
                           running, lastGap, launches, tempDirs>>
       ELSE Launch
    /\ UNCHANGED <<isRunning, startPc, emailTransporter, ext, loop2, invalid, skipped, db, cycleCount, mon,
                   monitoringTimer, proc, backoff, mailFailed, edges, fired, mailAttempts>>

\* The loop resumed from the spacing sleep: it launches without looking at
\* isRunning or at the queue again.
LoopSpacingDone ==
    /\ loopPc = "spacing"
    /\ loopLeft = 0
    /\ loop2 = [pc |-> "off", left |-> 0]
    /\ IF Len(scriptCallQueue) > 0
       THEN Launch
       ELSE \* shift() gives undefined and the destructuring throws
            /\ loopPc' = "crashed"
            /\ UNCHANGED <<loopLeft, scriptCallQueue, currentScriptCount,
                           sinceLastStart, running, lastGap, launches, tempDirs>>
    /\ UNCHANGED <<isRunning, startPc, emailTransporter, ext, loop2, invalid, skipped, db, cycleCount, mon,
                   monitoringTimer, proc, backoff, mailFailed, edges, fired, mailAttempts>>

\* (variant) a null result taken for a closed class
AfterLookupNullClosed(me, kind, outcome) ==
    IF kind = "null"
    THEN [me EXCEPT !.pc = "update1", !.obs = "Closed"]
    ELSE [me EXCEPT !.pc = "update1", !.obs = outcome]

\* processNotification resumed by the promise of getClassStatus: a null result
\* is logged and the check ends; a classStatus is printed and the first
\* findByIdAndUpdate is issued.
AfterLookup(me, kind, outcome) ==
    IF kind = "null"
    THEN NoProc
    ELSE [me EXCEPT !.pc = "update1", !.obs = outcome]

\* executeClassScript resumed by execAsync (resolved, rejected, or killed at
\* the 45 s timeout, which like every other end may come at any time the model
\* visits), through its finally; with resolve(), processNotification
\* runs on to its next await in the same turn.
ExecDone(x, outcome, jitter) ==
    /\ x \in running
    /\ LET kind == Classify(outcome, x.retries)
           key == <<x.cyc, x.rec>>
           p == IF kind = "retry"
                THEN proc
                ELSE [proc EXCEPT ![key] = AfterLookup(@, kind, outcome)]
       IN  /\ proc' = p
           /\ mon' = MonAfter(p, x.cyc)
           /\ backoff' =
                 IF kind = "retry"
                 THEN backoff \cup
                        {[cyc |-> x.cyc, rec |-> x.rec, retries |-> x.retries,
                          delay |-> RetryDelay(x.retries, jitter),
                          left |-> RetryDelay(x.retries, jitter)]}
                 ELSE backoff
           /\ (kind # "retry") => (jitter = 0)
           /\ launches' = IF kind = "retry"
                          THEN launches
                          ELSE [launches EXCEPT ![key] = 0]
           /\ skipped' = IF kind = "null" THEN skipped \cup {x.rec} ELSE skipped
    /\ running' = running \ {x}
    /\ currentScriptCount' = currentScriptCount - 1
    /\ tempDirs' = CleanUp(x, outcome)
    /\ UNCHANGED <<isRunning, startPc, emailTransporter, ext, loop2, invalid, db, cycleCount,
                   monitoringTimer, scriptCallQueue, sinceLastStart, loopPc,
                   loopLeft, lastGap, mailFailed, edges, fired, mailAttempts>>

\* (variant) unshift() in the retry timer instead of push()
BackoffFireFirst(b) ==
    /\ b \in backoff
    /\ b.left = 0
    /\ backoff' = backoff \ {b}
    /\ scriptCallQueue' = <<[cyc |-> b.cyc, rec |-> b.rec, retries |-> b.retries + 1]>>
                             \o scriptCallQueue
    /\ UNCHANGED <<isRunning, startPc, emailTransporter, ext, tempDirs, loop2, invalid, skipped, db, cycleCount, mon,
                   monitoringTimer, proc, currentScriptCount, sinceLastStart, running,
                   loopPc, loopLeft, lastGap, launches, mailFailed, edges, fired, mailAttempts>>

\* The retry timer of executeClassScript fires: push with retries + 1.
BackoffFire(b) ==
    /\ b \in backoff
    /\ b.left = 0
    /\ backoff' = backoff \ {b}
    /\ scriptCallQueue' = Append(scriptCallQueue,
           [cyc |-> b.cyc, rec |-> b.rec, retries |-> b.retries + 1])
    /\ UNCHANGED <<isRunning, startPc, emailTransporter, ext, tempDirs, loop2, invalid, skipped, db, cycleCount, mon,
                   monitoringTimer, proc, currentScriptCount, sinceLastStart, running,
                   loopPc, loopLeft, lastGap, launches, mailFailed, edges, fired, mailAttempts>>


\* ------------------------------------------------- processNotification
\* (variant) the transition test without the stored status
ShouldNotifyOnOpen(last_status, seatStatus) ==
    seatStatus = "Open"

\* The transition test of processNotification.
ShouldNotify(last_status, seatStatus) ==
    last_status = "Closed" /\ seatStatus = "Open"

\* (variant) the first update closing the tracking of a class seen Open
FirstUpdateDeactivating(doc, seatStatus) ==
    [doc EXCEPT !.last_checked = Now, !.last_status = seatStatus,
                !.is_active = (seatStatus # "Open")]

\* (variant) the first update without the status
FirstUpdateNoStatus(doc, seatStatus) ==
    [doc EXCEPT !.last_checked = Now]

\* findByIdAndUpdate(_id, { last_checked: new Date(), last_status: seatStatus })
FirstUpdate(doc, seatStatus) ==
    [doc EXCEPT !.last_checked = Now, !.last_status = seatStatus]

\* (variant) the second update without the increment
SecondUpdateNoIncrement(doc, notification_count) ==
    [doc EXCEPT !.notification_sent = Now,
                !.notification_count = notification_count]

\* findByIdAndUpdate(_id, { notification_sent: new Date(),
\*                          notification_count: notification.notification_count + 1 })
SecondUpdate(doc, notification_count) ==
    [doc EXCEPT !.notification_sent = Now,
                !.notification_count = notification_count + 1]

\* processNotification from its entry to the push of getClassStatus, for every
\* document of a loaded batch, in the order of the map(): the snapshot the
\* invocation keeps, and the queue entries.
StartProcs(c, page) ==
    [k \in DOMAIN proc |->
        IF k[1] = c /\ k[2] \in page
        THEN [pc |-> "lookup", last_status |-> db[k[2]].last_status,
              notification_count |-> db[k[2]].notification_count, obs |-> NULL]
        ELSE proc[k]]

NewEntries(c, page) ==
    LET ord == InOrder(page)
    IN  [i \in 1..Len(ord) |-> [cyc |-> c, rec |-> ord[i], retries |-> 0]]

\* (variant) sendNotificationEmail without its test of the transporter
SendStageUnguarded == "email"

\* Where sendNotificationEmail leaves processNotification waiting: at sendMail,
\* or, returning at once for want of a transporter, at the second update.
SendStage == IF emailTransporter THEN "email" ELSE "update2"

\* The first findByIdAndUpdate completes; the transition test follows and,
\* on a transition, sendNotificationEmail up to its await of sendMail (or its
\* early return without a transporter, and then the second update is issued).
ProcUpdate1Done(c, r) ==
    LET key == <<c, r>>
        me == proc[key]
        p == IF ShouldNotify(me.last_status, me.obs)
             THEN [proc EXCEPT ![key] =
                      [@ EXCEPT !.pc = SendStage]]
             ELSE [proc EXCEPT ![key] = NoProc]
    IN  /\ me.pc = "update1"
        /\ db' = [db EXCEPT ![r] = FirstUpdate(@, me.obs)]
        /\ proc' = p
        /\ mon' = MonAfter(p, c)
        /\ mailFailed' = [mailFailed EXCEPT ![r] = IF me.obs = "Closed" THEN FALSE ELSE @]
        /\ edges' = [edges EXCEPT ![r] =
                        IF db[r].last_status = "Closed" /\ me.obs = "Open" THEN @ + 1 ELSE @]
        /\ fired' = [fired EXCEPT ![r] = IF p[key].pc # "none" THEN @ + 1 ELSE @]
        /\ mailAttempts' = [mailAttempts EXCEPT ![r] = IF p[key].pc = "email" THEN @ + 1 ELSE @]
        /\ UNCHANGED <<isRunning, startPc, emailTransporter, ext, tempDirs, loop2, invalid, skipped, cycleCount, monitoringTimer,
                       scriptCallQueue, currentScriptCount, sinceLastStart, running,
                       backoff, loopPc, loopLeft, lastGap, launches>>

\* (variant) a rejection of sendMail that reaches processNotification's catch
AfterSendThrows(me, ok) ==
    IF ok THEN [me EXCEPT !.pc = "update2"] ELSE NoProc

\* sendNotificationEmail returns to processNotification, after the log of
\* the success or, from its catch, of the error.
AfterSend(me, ok) == [me EXCEPT !.pc = "update2"]

\* sendMail settles; a rejection is caught inside sendNotificationEmail, so
\* either way processNotification goes on to the second findByIdAndUpdate.
ProcEmailDone(c, r, ok) ==
    /\ proc[<<c, r>>].pc = "email"
    /\ proc' = [proc EXCEPT ![<<c, r>>] = AfterSend(@, ok)]
    /\ mailFailed' = [mailFailed EXCEPT ![r] = ~ok]
    /\ UNCHANGED <<isRunning, startPc, emailTransporter, ext, tempDirs, loop2, invalid, skipped, db, cycleCount, mon,
                   monitoringTimer, scriptCallQueue, currentScriptCount, sinceLastStart,
                   running, backoff, loopPc, loopLeft, lastGap, launches, edges, fired,
                   mailAttempts>>

\* The second findByIdAndUpdate completes and processNotification returns.
ProcUpdate2Done(c, r) ==
    LET key == <<c, r>>
        p == [proc EXCEPT ![key] = NoProc]
    IN  /\ proc[key].pc = "update2"
        /\ db' = [db EXCEPT ![r] = SecondUpdate(@, proc[key].notification_count)]
        /\ proc' = p
        /\ mon' = MonAfter(p, c)
        /\ UNCHANGED <<isRunning, startPc, emailTransporter, ext, tempDirs, loop2, invalid, skipped, cycleCount, monitoringTimer,
                       scriptCallQueue, currentScriptCount, sinceLastStart, running,
                       backoff, loopPc, loopLeft, lastGap, launches, edges, fired, mailAttempts, mailFailed>>

\* ------------------------------------------------- monitorClasses
\* The end of monitorClasses: setTimeout(() => this.monitorClasses(), checkInterval).
ScheduleNext(c) ==
    /\ mon' = [mon EXCEPT ![c] = [@ EXCEPT !.pc = "timer", !.left = CheckInterval]]
    /\ monitoringTimer' = c

\* The head of the for loop over the batches: the loop test, the isRunning
\* test, and the find() of the batch.
EnterBatch(c, b, total) ==
    IF b < total /\ isRunning
    THEN /\ mon' = [mon EXCEPT ![c] = [pc |-> "load", batch |-> b, total |-> total,
                                       left |-> 0]]
         /\ UNCHANGED monitoringTimer
    ELSE ScheduleNext(c)

\* monitorClasses called: the isRunning test, cycleCount++, countDocuments issued.
CallMonitor(m) ==
    IF isRunning
    THEN /\ cycleCount' = cycleCount + 1
         /\ mon' = [m EXCEPT ![cycleCount + 1] = [NoMon EXCEPT !.pc = "count"]]
         /\ skipped' = {}
    ELSE /\ cycleCount' = cycleCount
         /\ mon' = m
         /\ skipped' = skipped

\* countDocuments({ is_active: true }) completes.
MonCountDone(c) ==
    /\ mon[c].pc = "count"
    /\ LET n == Cardinality(Active)
       IN  IF n > 0 THEN EnterBatch(c, 0, TotalBatches(n)) ELSE ScheduleNext(c)
    /\ UNCHANGED <<isRunning, startPc, emailTransporter, ext, tempDirs, loop2, invalid, skipped, db, cycleCount, proc,
                   scriptCallQueue, currentScriptCount, sinceLastStart, running,
                   backoff, loopPc, loopLeft, lastGap, launches, mailFailed, edges, fired, mailAttempts>>

\* The find() of a batch completes: every document's processNotification runs
\* to its getClassStatus push (or, for a document without user or class, to its
\* return null), then monitorClasses awaits allSettled.
MonLoadDone(c) ==
    /\ mon[c].pc = "load"
    /\ LET page == Page(mon[c].batch)
           p == StartProcs(c, page \ invalid)
       IN  /\ proc' = p
           /\ scriptCallQueue' = scriptCallQueue \o NewEntries(c, page \ invalid)
           /\ skipped' = skipped \cup (page \cap invalid)
           /\ visits' = [k \in DOMAIN visits |->
                            IF k[1] = c /\ k[2] \in page THEN visits[k] + 1 ELSE visits[k]]
           /\ mon' = [mon EXCEPT ![c] =
                        IF BatchSettled(p, c)
                        THEN [@ EXCEPT !.pc = "delay", !.left = BatchDelay]
                        ELSE [@ EXCEPT !.pc = "gather"]]
    /\ UNCHANGED <<isRunning, startPc, emailTransporter, tmpWritable, ownerless, refills,
                   cycleErrors, lookupReqs, classDocs, notifications, createPc,
                   deletePc, fill, createdAt, models, earlyReturns, healthCheck, auth,
                   tempDirs, loop2, invalid, db, cycleCount, monitoringTimer,
                   currentScriptCount, sinceLastStart, running, backoff, loopPc,
                   loopLeft, lastGap, launches, mailFailed, edges, fired, mailAttempts>>

\* sleep(1000) after a batch ends: the next batch, or the end of the cycle.
MonDelayDone(c) ==
    /\ mon[c].pc = "delay"
    /\ mon[c].left = 0
    /\ EnterBatch(c, mon[c].batch + 1, mon[c].total)
    /\ UNCHANGED <<isRunning, startPc, emailTransporter, ext, tempDirs, loop2, invalid, skipped, db, cycleCount, proc,
                   scriptCallQueue, currentScriptCount, sinceLastStart, running,
                   backoff, loopPc, loopLeft, lastGap, launches, mailFailed, edges, fired, mailAttempts>>

\* The monitoring timer fires and calls monitorClasses.
MonTimerFire(c) ==
    /\ mon[c].pc = "timer"
    /\ mon[c].left = 0
    /\ cycleCount < MaxCycles \/ ~isRunning
    /\ CallMonitor([mon EXCEPT ![c] = [@ EXCEPT !.pc = "done"]])
    /\ UNCHANGED <<isRunning, startPc, emailTransporter, ext, tempDirs, loop2, invalid, db, monitoringTimer, proc,
                   scriptCallQueue, currentScriptCount, sinceLastStart, running,
                   backoff, loopPc, loopLeft, lastGap, launches, edges, fired, mailAttempts, mailFailed>>

\* ------------------------------------------------- store failures
\* (variant) a cycle-level error that escapes monitorClasses
OnCycleErrorEscapes(c) ==
    /\ mon' = [mon EXCEPT ![c] = [@ EXCEPT !.pc = "done"]]
    /\ monitoringTimer' = monitoringTimer

\* The catch of monitorClasses: the error is logged and the function runs on
\* to its setTimeout.
OnCycleError(c) == ScheduleNext(c)

\* (variant) a rejection that ends the wait for the batch (Promise.all)
MonOnRejectAbort(p, c) ==
    [mon EXCEPT ![c] = [@ EXCEPT !.pc = "timer", !.left = CheckInterval]]

\* The catch of processNotification: the error is logged, the invocation
\* returns null and counts as settled like any other.
MonOnReject(p, c) == MonAfter(p, c)

\* countDocuments rejects.
MonCountFail(c) ==
    /\ mon[c].pc = "count"
    /\ OnCycleError(c)
    /\ cycleErrors' = cycleErrors \cup {c}
    /\ UNCHANGED <<isRunning, startPc, emailTransporter, tmpWritable, tempDirs,
                   ownerless, refills, loop2, createdAt, visits, models, earlyReturns,
                   healthCheck, auth,
                   invalid, skipped, db,
                   cycleCount, proc, scriptCallQueue, currentScriptCount,
                   sinceLastStart, running, backoff, loopPc, loopLeft, lastGap,
                   launches, edges, fired, mailAttempts, mailFailed, lookupReqs,
                   classDocs, notifications, createPc, deletePc, fill>>

\* The find() of a batch rejects.
MonLoadFail(c) ==
    /\ mon[c].pc = "load"
    /\ OnCycleError(c)
    /\ cycleErrors' = cycleErrors \cup {c}
    /\ UNCHANGED <<isRunning, startPc, emailTransporter, tmpWritable, tempDirs,
                   ownerless, refills, loop2, createdAt, visits, models, earlyReturns,
                   healthCheck, auth,
                   invalid, skipped, db,
                   cycleCount, proc, scriptCallQueue, currentScriptCount,
                   sinceLastStart, running, backoff, loopPc, loopLeft, lastGap,
                   launches, edges, fired, mailAttempts, mailFailed, lookupReqs,
                   classDocs, notifications, createPc, deletePc, fill>>

\* A findByIdAndUpdate of processNotification rejects (the first or the
\* second one): nothing is written.
ProcUpdateFail(c, r) ==
    LET key == <<c, r>>
        p == [proc EXCEPT ![key] = NoProc]
    IN  /\ proc[key].pc \in {"update1", "update2"}
        /\ proc' = p
        /\ mon' = MonOnReject(p, c)
        /\ skipped' = skipped \cup {r}
        /\ UNCHANGED <<isRunning, startPc, emailTransporter, ext, tempDirs, loop2, invalid, db,
                       cycleCount, monitoringTimer, scriptCallQueue,
                       currentScriptCount, sinceLastStart, running, backoff, loopPc,
                       loopLeft, lastGap, launches, edges, fired, mailAttempts,
                       mailFailed>>

\* ------------------------------------------------- lookupClass
\* POST /api/classes/lookup: the handler up to its await of exec(command,
\* { timeout: 45000 }), which starts the script at once.
LookupClass(q) ==
    /\ q \notin lookupReqs
    /\ lookupReqs' = lookupReqs \cup {q}
    /\ UNCHANGED <<isRunning, startPc, emailTransporter, tmpWritable, tempDirs,
                   ownerless, refills, loop2, createdAt, visits, models, earlyReturns,
                   healthCheck, auth,
                   invalid, skipped, cycleErrors,
                   db, cycleCount, mon, monitoringTimer, proc, scriptCallQueue,
                   currentScriptCount, sinceLastStart, running, backoff, loopPc,
                   loopLeft, lastGap, launches, edges, fired, mailAttempts, mailFailed,
                   classDocs, notifications, createPc, deletePc, fill>>

\* The exec of a lookupClass request ends (output, error or timeout) and the
\* handler responds.
LookupClassDone(q) ==
    /\ q \in lookupReqs
    /\ lookupReqs' = lookupReqs \ {q}
    /\ UNCHANGED <<isRunning, startPc, emailTransporter, tmpWritable, tempDirs,
                   ownerless, refills, loop2, createdAt, visits, models, earlyReturns,
                   healthCheck, auth,
                   invalid, skipped, cycleErrors,
                   db, cycleCount, mon, monitoringTimer, proc, scriptCallQueue,
                   currentScriptCount, sinceLastStart, running, backoff, loopPc,
                   loopLeft, lastGap, launches, edges, fired, mailAttempts, mailFailed,
                   classDocs, notifications, createPc, deletePc, fill>>

\* ------------------------------------------------- tracking records
\* (variant) a tracking document that takes over the class's seat status
TrackingDocOfClass(c) ==
    [class_id |-> c, last_status |-> classDocs[c], notification_count |-> 0,
     is_active |-> TRUE]

\* Notification.create({ user_id, class_id, class_number, last_status: 'Closed',
\* is_active: true }), with the schema's default count. A class belongs to one
\* user, so class_id stands for the pair (user_id, class_id).
TrackingDoc(c) ==
    [class_id |-> c, last_status |-> "Closed", notification_count |-> 0,
     is_active |-> TRUE]

\* The documents of a pair, by their place in the collection.
DocsOf(c) == {i \in 1..Len(notifications) : notifications[i].class_id = c}

\* (variant) untracking by deleting the documents of the pair
DeactivateByDelete(c) ==
    SelectSeq(notifications, LAMBDA d : d.class_id # c)

\* Notification.findOneAndUpdate({ user_id, class_id }, { is_active: false }):
\* the first document of the pair, if there is one.
Deactivate(c) ==
    IF DocsOf(c) = {}
    THEN notifications
    ELSE [notifications EXCEPT ![Min(DocsOf(c))].is_active = FALSE]

\* createClass up to its await of Class.create.
CreateClass(c) ==
    /\ createPc[c] = "new"
    /\ createPc' = [createPc EXCEPT ![c] = "classCreate"]
    /\ UNCHANGED <<poller, classDocs, notifications, deletePc, fill>>

\* Class.create completes, with the seatStatus of the request body;
\* handleClassAdded runs to its Class.findById.
ClassCreated(c, seatStatus) ==
    /\ createPc[c] = "classCreate"
    /\ classDocs' = [classDocs EXCEPT ![c] = seatStatus]
    /\ createPc' = [createPc EXCEPT ![c] = "addFind"]
    /\ UNCHANGED <<poller, notifications, deletePc, fill>>

\* handleClassAdded resumed by Class.findById: it returns if there is no such
\* class and issues Notification.create otherwise.
AddedFindDone(c) ==
    /\ createPc[c] = "addFind"
    /\ createPc' = [createPc EXCEPT ![c] =
                       IF classDocs[c] = "none" THEN "end" ELSE "addCreate"]
    /\ UNCHANGED <<poller, classDocs, notifications, deletePc, fill>>

\* Notification.create of handleClassAdded completes; createClass responds.
AddedCreateDone(c) ==
    /\ createPc[c] = "addCreate"
    /\ notifications' = Append(notifications, TrackingDoc(c))
    /\ createPc' = [createPc EXCEPT ![c] = "end"]
    /\ UNCHANGED <<poller, classDocs, deletePc, fill>>

\* deleteClass up to its await of Class.findById.
DeleteClass(c) ==
    /\ deletePc[c] = "idle"
    /\ createPc[c] # "new"
    /\ deletePc' = [deletePc EXCEPT ![c] = "find"]
    /\ UNCHANGED <<poller, classDocs, notifications, createPc, fill>>

\* Class.findById of deleteClass completes: 404 without the class, else
\* handleClassRemoved up to its findOneAndUpdate.
DeleteFindDone(c) ==
    /\ deletePc[c] = "find"
    /\ deletePc' = [deletePc EXCEPT ![c] =
                       IF classDocs[c] = "none" THEN "idle" ELSE "update"]
    /\ UNCHANGED <<poller, classDocs, notifications, createPc, fill>>

\* Class.findById of deleteClass completes for a requester who is not the
\* class's user: 403, and the handler ends.
DeleteForbidden(c) ==
    /\ deletePc[c] = "find"
    /\ classDocs[c] # "none"
    /\ deletePc' = [deletePc EXCEPT ![c] = "idle"]
    /\ UNCHANGED <<poller, classDocs, notifications, createPc, fill>>

\* The findOneAndUpdate of handleClassRemoved completes; deleteOne is issued.
RemovedUpdateDone(c) ==
    /\ deletePc[c] = "update"
    /\ notifications' = Deactivate(c)
    /\ deletePc' = [deletePc EXCEPT ![c] = "delete"]
    /\ UNCHANGED <<poller, classDocs, createPc, fill>>

\* deleteOne completes; deleteClass responds.
ClassDeleted(c) ==
    /\ deletePc[c] = "delete"
    /\ classDocs' = [classDocs EXCEPT ![c] = "none"]
    /\ deletePc' = [deletePc EXCEPT ![c] = "end"]
    /\ UNCHANGED <<poller, notifications, createPc, fill>>

\* if (!classItem.user_id) continue
RECURSIVE SkipOwnerless(_)
SkipOwnerless(todo) ==
    IF todo # <<>> /\ Head(todo) \in ownerless
    THEN SkipOwnerless(Tail(todo))
    ELSE todo

\* (variant) the backfill looking for an active document only
ExistingActive(c) ==
    {i \in 1..Len(notifications) :
        notifications[i].class_id = c /\ notifications[i].is_active}

\* What Notification.findOne({ user_id, class_id }) of the backfill matches.
Existing(c) == DocsOf(c)

\* The classes the backfill has yet to visit, after the one in hand.
FillNext(todo) ==
    IF SkipOwnerless(todo) = <<>>
    THEN [pc |-> "end", todo |-> <<>>]
    ELSE [pc |-> "findOne", todo |-> SkipOwnerless(todo)]

\* start() of the worker: initializeNotificationTracking up to its await of
\* Class.find({}).
FillStart ==
    /\ fill.pc = "off"
    /\ fill' = [fill EXCEPT !.pc = "find"]
    /\ UNCHANGED <<poller, classDocs, notifications, createPc, deletePc>>

\* Class.find({}) completes: the loop starts over the classes found, with
\* the findOne of the first.
FillFindDone ==
    /\ fill.pc = "find"
    /\ fill' = FillNext(InOrder({c \in ClassIds : classDocs[c] # "none"}))
    /\ UNCHANGED <<poller, classDocs, notifications, createPc, deletePc>>

\* Notification.findOne({ user_id, class_id }) completes: with a document
\* the loop goes on, without one Notification.create is issued.
FillFindOneDone ==
    /\ fill.pc = "findOne"
    /\ fill' = IF Existing(Head(fill.todo)) # {}
               THEN FillNext(Tail(fill.todo))
               ELSE [fill EXCEPT !.pc = "create"]
    /\ UNCHANGED <<poller, classDocs, notifications, createPc, deletePc>>

\* Notification.create of the backfill completes; the loop goes on.
FillCreateDone ==
    /\ fill.pc = "create"
    /\ notifications' = Append(notifications, TrackingDoc(Head(fill.todo)))
    /\ fill' = FillNext(Tail(fill.todo))
    /\ UNCHANGED <<poller, classDocs, createPc, deletePc>>

\* start() of a worker started again: the backfill runs once more.
FillAgain ==
    /\ fill.pc = "end"
    /\ refills < MaxRefills
    /\ refills' = refills + 1
    /\ fill' = [pc |-> "find", todo |-> <<>>]
    /\ UNCHANGED <<isRunning, tmpWritable, tempDirs, startPc, emailTransporter, db,
                   cycleCount, mon, monitoringTimer, proc, scriptCallQueue,
                   currentScriptCount, sinceLastStart, running, backoff, loopPc,
                   loopLeft, lastGap, launches, edges, fired, mailAttempts,
                   mailFailed, invalid, skipped, cycleErrors, lookupReqs, ownerless,
                   classDocs, notifications, createPc, deletePc, loop2,
                   createdAt, visits, models, earlyReturns, healthCheck, auth>>

\* ------------------------------------------------- tracking, as the poller meets it
\* The findOneAndUpdate({ user_id, class_id }, { is_active: false }) of
\* handleClassRemoved completes, for the pair record r tracks.
HandleClassRemoved(r) ==
    /\ createdAt[r] >= 0
    /\ db[r].is_active
    /\ db' = [db EXCEPT ![r].is_active = FALSE]
    /\ UNCHANGED <<isRunning, tmpWritable, tempDirs, startPc, emailTransporter,
                   cycleCount, mon, monitoringTimer, proc, scriptCallQueue,
                   currentScriptCount, sinceLastStart, running, backoff, loopPc,
                   loopLeft, lastGap, launches, edges, fired, mailAttempts,
                   mailFailed, invalid, skipped, cycleErrors, lookupReqs, classDocs,
                   notifications, createPc, deletePc, fill, ownerless, refills,
                   loop2, createdAt, visits, models, earlyReturns, healthCheck, auth>>

\* The Notification.create of handleClassAdded completes: the document comes
\* after those there are (no sort is asked for, and find() gives the documents
\* in the order of their insertion), with the defaults of the schema.
HandleClassAdded(r) ==
    /\ createdAt[r] < 0
    /\ \A q \in Records : createdAt[q] < 0 => r <= q
    /\ db' = [db EXCEPT ![r] = NewNotification]
    /\ createdAt' = [createdAt EXCEPT ![r] = Now]
    /\ UNCHANGED <<isRunning, tmpWritable, tempDirs, startPc, emailTransporter,
                   cycleCount, mon, monitoringTimer, proc, scriptCallQueue,
                   currentScriptCount, sinceLastStart, running, backoff, loopPc,
                   loopLeft, lastGap, launches, edges, fired, mailAttempts,
                   mailFailed, invalid, skipped, cycleErrors, lookupReqs, classDocs,
                   notifications, createPc, deletePc, fill, ownerless, refills,
                   loop2, visits, models, earlyReturns, healthCheck, auth>>

\* ------------------------------------------------- start and stop
\* (variant) start() without its test of isRunning
AlreadyRunningNever == FALSE

\* if (this.isRunning): the first test of start().
AlreadyRunning == isRunning

\* start() called when it will not be the first to go ahead: it returns at its
\* test of isRunning or at its test of the models; past both tests it sets
\* isRunning and awaits the backfill, as a call after a first one that has
\* returned (a call that would go ahead while another is at its await is not
\* followed).
StartCall ==
    /\ earlyReturns < MaxEarlyReturns
    /\ IF AlreadyRunning \/ ~models
       THEN /\ earlyReturns' = earlyReturns + 1
            /\ UNCHANGED <<isRunning, startPc>>
       ELSE /\ startPc = "done"
            /\ isRunning' = TRUE
            /\ startPc' = "init2"
            /\ UNCHANGED earlyReturns
    /\ UNCHANGED <<tmpWritable, tempDirs, emailTransporter, db, cycleCount, mon,
                   monitoringTimer, proc, scriptCallQueue, currentScriptCount,
                   sinceLastStart, running, backoff, loopPc, loopLeft, lastGap,
                   launches, edges, fired, mailAttempts, mailFailed, invalid,
                   skipped, cycleErrors, lookupReqs, classDocs, notifications,
                   createPc, deletePc, fill, ownerless, refills, loop2, createdAt,
                   visits, models, healthCheck, auth>>

\* start() up to its await of initializeNotificationTracking.
Start ==
    /\ startPc = "idle"
    /\ ~isRunning
    /\ models
    /\ isRunning' = TRUE
    /\ startPc' = "init"
    /\ UNCHANGED <<emailTransporter, ext, tempDirs, loop2, invalid, skipped, db, cycleCount, mon, monitoringTimer, proc,
                   scriptCallQueue, currentScriptCount, sinceLastStart, running,
                   backoff, loopPc, loopLeft, lastGap, launches, mailFailed, edges, fired, mailAttempts>>

\* start() resumed: monitorClasses() to its first await, then
\* processScriptQueue() to its first sleep.
StartDone ==
    /\ startPc = "init"
    /\ startPc' = "done"
    /\ CallMonitor(mon)
    /\ IF isRunning
       THEN loopPc' = "sleep" /\ loopLeft' = 0
       ELSE loopPc' = "exited" /\ loopLeft' = 0
    /\ UNCHANGED <<isRunning, emailTransporter, ext, tempDirs, loop2, invalid, db, monitoringTimer, proc,
                   scriptCallQueue, currentScriptCount, sinceLastStart, running,
                   backoff, lastGap, launches, mailFailed, edges, fired, mailAttempts>>

\* start() called again after stop(): isRunning is false, so it goes on to
\* its await of initializeNotificationTracking.
Restart ==
    /\ startPc = "done"
    /\ ~isRunning
    /\ models
    /\ isRunning' = TRUE
    /\ startPc' = "init2"
    /\ UNCHANGED <<emailTransporter, ext, tempDirs, loop2, invalid, skipped, db, cycleCount, mon,
                   monitoringTimer, proc, scriptCallQueue, currentScriptCount,
                   sinceLastStart, running, backoff, loopPc, loopLeft, lastGap,
                   launches, mailFailed, edges, fired, mailAttempts>>

\* The second start() resumed: monitorClasses() to its first await, then a
\* second processScriptQueue() to its first sleep.
RestartDone ==
    /\ startPc = "init2"
    /\ cycleCount < MaxCycles
    /\ startPc' = "done2"
    /\ CallMonitor(mon)
    /\ loop2' = IF isRunning
                THEN [pc |-> "sleep", left |-> 0]
                ELSE [pc |-> "exited", left |-> 0]
    /\ UNCHANGED <<isRunning, emailTransporter, ext, tempDirs, invalid, db, monitoringTimer,
                   proc, scriptCallQueue, currentScriptCount, sinceLastStart, running,
                   backoff, loopPc, loopLeft, lastGap, launches, mailFailed, edges,
                   fired, mailAttempts>>

\* The dispatch, by the second loop.
Launch2 ==
    LET e == Head(scriptCallQueue)
    IN  /\ scriptCallQueue' = Tail(scriptCallQueue)
        /\ currentScriptCount' = currentScriptCount + 1
        /\ sinceLastStart' = 0
        /\ running' = running \cup
               {[cyc |-> e.cyc, rec |-> e.rec, retries |-> e.retries]}
        /\ lastGap' = sinceLastStart
        /\ launches' = [launches EXCEPT ![<<e.cyc, e.rec>>] = @ + 1]
        /\ loop2' = [pc |-> "sleep", left |-> 0]
        /\ tempDirs' = MakeTempDir(e)

\* One turn of the second loop, from the end of sleep(500).
Loop2Wake ==
    /\ loop2.pc = "sleep"
    /\ IF ~isRunning
       THEN /\ loop2' = [pc |-> "exited", left |-> 0]
            /\ UNCHANGED <<scriptCallQueue, currentScriptCount,
                           sinceLastStart, running, lastGap, launches, tempDirs>>
       ELSE IF ~CanDispatch
       THEN /\ loop2' = [pc |-> "sleep", left |-> 0]
            /\ UNCHANGED <<scriptCallQueue, currentScriptCount, sinceLastStart,
                           running, lastGap, launches, tempDirs>>
       ELSE IF SpacingDelay(sinceLastStart) > 0
       THEN /\ loop2' = [pc |-> "spacing", left |-> SpacingDelay(sinceLastStart)]
            /\ UNCHANGED <<scriptCallQueue, currentScriptCount, sinceLastStart,
                           running, lastGap, launches, tempDirs>>
       ELSE Launch2
    /\ UNCHANGED <<isRunning, startPc, emailTransporter, ext, invalid, skipped, db, cycleCount, mon,
                   monitoringTimer, proc, backoff, mailFailed, edges, fired, mailAttempts,
                   loopPc, loopLeft>>

\* The second loop resumed from the spacing sleep.
Loop2SpacingDone ==
    /\ loop2.pc = "spacing"
    /\ loop2.left = 0
    /\ IF Len(scriptCallQueue) > 0
       THEN Launch2
       ELSE \* shift() gives undefined and the destructuring throws
            /\ loop2' = [pc |-> "crashed", left |-> 0]
            /\ UNCHANGED <<scriptCallQueue, currentScriptCount,
                           sinceLastStart, running, lastGap, launches, tempDirs>>
    /\ UNCHANGED <<isRunning, startPc, emailTransporter, ext, invalid, skipped, db, cycleCount, mon,
                   monitoringTimer, proc, backoff, mailFailed, edges, fired, mailAttempts,
                   loopPc, loopLeft>>

\* stop(): isRunning = false and clearTimeout(this.monitoringTimer).
Stop ==
    /\ isRunning
    /\ isRunning' = FALSE
    /\ mon' = IF monitoringTimer # 0 /\ mon[monitoringTimer].pc = "timer"
              THEN [mon EXCEPT ![monitoringTimer] = [@ EXCEPT !.pc = "cleared", !.left = 0]]
              ELSE mon
    /\ UNCHANGED <<startPc, emailTransporter, ext, tempDirs, loop2, invalid, skipped, db, cycleCount, monitoringTimer, proc,
                   scriptCallQueue, currentScriptCount, sinceLastStart, running,
                   backoff, loopPc, loopLeft, lastGap, launches, edges, fired, mailAttempts, mailFailed>>

\* ------------------------------------------------- time
\* The ms left of every pending timer.
Timers ==
    (IF loopPc = "spacing" THEN {loopLeft} ELSE {})
    \cup (IF loop2.pc = "spacing" THEN {loop2.left} ELSE {})
    \cup {b.left : b \in backoff}
    \cup {mon[c].left : c \in {k \in Cycles : mon[k].pc \in {"delay", "timer"}}}

\* The instants worth stopping at: the next expiry, and the end of the minimum
\* interval since the last launch.
Horizon ==
    Timers \cup (IF sinceLastStart < MinScriptInterval
                 THEN {MinScriptInterval - sinceLastStart}
                 ELSE {})

\* Time passes up to the next such instant; a timer that is due fires first.
Advance ==
    /\ Horizon # {}
    /\ 0 \notin Timers
    /\ LET d == Min(Horizon)
       IN  /\ loopLeft' = IF loopPc = "spacing" THEN loopLeft - d ELSE loopLeft
           /\ loop2' = IF loop2.pc = "spacing"
                       THEN [loop2 EXCEPT !.left = @ - d]
                       ELSE loop2
           /\ backoff' = {[b EXCEPT !.left = @ - d] : b \in backoff}
           /\ mon' = [c \in Cycles |->
                        IF mon[c].pc \in {"delay", "timer"}
                        THEN [mon[c] EXCEPT !.left = @ - d]
                        ELSE mon[c]]
           /\ sinceLastStart' =
                 IF sinceLastStart + d > MinScriptInterval
                 THEN MinScriptInterval
                 ELSE sinceLastStart + d
    /\ UNCHANGED <<isRunning, startPc, emailTransporter, ext, tempDirs, invalid, skipped, db, cycleCount, monitoringTimer,
                   proc, scriptCallQueue, currentScriptCount, running, loopPc,
                   lastGap, launches, mailFailed, edges, fired, mailAttempts>>

\* ------------------------------------------------- beside the service
NoHealthCheck ==
    [pc |-> "off", retries |-> 0, maxRetries |-> 0, checks |-> 0, sawReady |-> FALSE]
\* undefined, for a token or a date.
Unset == 0

\* crypto.createHash('sha256').update(token).digest('hex'): one value per
\* token, none of them a token that randomBytes gave out.
Sha256(t) == t + 100

\* bcrypt.hash(password, 10), as the store keeps it.
Bcrypt(p) == <<"bcrypt", p>>

\* The password the account was registered with, and the bodies a
\* reset-password request comes with: two good ones, one too short, one whose
\* confirmation differs, one without its fields.
OldPassword == <<0, 0, 0, 0, 0, 0>>
Bodies ==
    {[password |-> <<1, 2, 3, 4, 5, 6>>, confirmPassword |-> <<1, 2, 3, 4, 5, 6>>],
     [password |-> <<6, 5, 4, 3, 2, 1>>, confirmPassword |-> <<6, 5, 4, 3, 2, 1>>],
     [password |-> <<1, 2, 3>>, confirmPassword |-> <<1, 2, 3>>],
     [password |-> <<1, 2, 3, 4, 5, 6>>, confirmPassword |-> <<6, 5, 4, 3, 2, 1>>],
     [password |-> <<>>, confirmPassword |-> <<>>]}

\* The tokens a reset-password request may come with: those forgotPassword
\* mailed (request q's token is q: randomBytes gives every request its own),
\* and the hash the store keeps for the first.
Presented == Requests \cup {Sha256(1)}

NoForgot == [pc |-> "idle", known |-> FALSE, token |-> Unset, expires |-> Unset]
NoReset == [pc |-> "idle", token |-> Unset, password |-> <<>>]

\* Before the server has called checkDatabaseConnection and before any request
\* of the user controller: an account with its password and no reset token.
SideInit ==
    /\ healthCheck = NoHealthCheck
    /\ user = [password |-> Bcrypt(OldPassword), resetPasswordToken |-> Unset,
               resetPasswordExpires |-> Unset]
    /\ clock = 0
    /\ forgot = [q \in Requests |-> NoForgot]
    /\ reset = [q \in Requests |-> NoReset]

\* ------------------------------------------------- checkDatabaseConnection
\* What a read of mongoose.connection.readyState comes to: 1, another value,
\* or an exception.
ReadyStates == {"ready", "notReady", "throws"}

\* The values of maxRetries the function is called with.
HealthRetries == 0..MaxHealthRetries \cup {DefaultMaxRetries}

\* (variant) the loop test with <= for <
GoOnInclusive(retries, maxRetries) == retries <= maxRetries

\* retries < maxRetries: the test of the while loop, and of the catch block
\* before its sleep.
GoOn(retries, maxRetries) == retries < maxRetries

\* The function from the test of its while loop to its next await or its
\* return, o being what the read of readyState comes to: return true; the
\* sleep of the try block, with retries++ after it; retries++ and the sleep of
\* the catch block, or no sleep at the last retry; return false after the loop.
Iterate(h, o) ==
    IF ~GoOn(h.retries, h.maxRetries)
    THEN [h EXCEPT !.pc = "false"]
    ELSE IF o = "ready"
    THEN [h EXCEPT !.pc = "true", !.checks = @ + 1, !.sawReady = TRUE]
    ELSE IF o = "notReady"
    THEN [h EXCEPT !.pc = "sleepTry", !.checks = @ + 1]
    ELSE IF GoOn(h.retries + 1, h.maxRetries)
    THEN [h EXCEPT !.pc = "sleepCatch", !.retries = @ + 1, !.checks = @ + 1]
    ELSE [h EXCEPT !.pc = "false", !.retries = @ + 1, !.checks = @ + 1]

\* checkDatabaseConnection called with maxRetries = m.
CheckDatabaseConnection(m, o) ==
    /\ healthCheck.pc = "off"
    /\ healthCheck' = Iterate([NoHealthCheck EXCEPT !.maxRetries = m], o)
    /\ UNCHANGED <<tracker, auth>>

\* The sleep of retryInterval ends.
RetryIntervalDone(o) ==
    /\ healthCheck.pc \in {"sleepTry", "sleepCatch"}
    /\ healthCheck' =
          Iterate(IF healthCheck.pc = "sleepTry"
                  THEN [healthCheck EXCEPT !.retries = @ + 1]
                  ELSE healthCheck, o)
    /\ UNCHANGED <<tracker, auth>>

\* startServer resumed by checkDatabaseConnection(), called with the defaults:
\* if (isDbReady) await notificationService.start().
BootStart ==
    /\ healthCheck.pc = "true"
    /\ healthCheck.maxRetries = DefaultMaxRetries
    /\ Start

\* ------------------------------------------------- forgotPassword
\* POST /forgot-password: 400 without an email, else User.findOne({ email }).
ForgotPassword(q, email) ==
    /\ forgot[q].pc = "idle"
    /\ forgot' = [forgot EXCEPT ![q] =
                     IF email = "none"
                     THEN [NoForgot EXCEPT !.pc = "rejected"]
                     ELSE [NoForgot EXCEPT !.pc = "find", !.known = (email = "known")]]
    /\ UNCHANGED <<tracker, healthCheck, user, clock, reset>>

\* User.findOne completes: 404 without a user; else the token is drawn, its
\* hash and Date.now() + 10 minutes are set on the document and save() is
\* issued.
ForgotFindDone(q) ==
    /\ forgot[q].pc = "find"
    /\ forgot' = [forgot EXCEPT ![q] =
                     IF ~forgot[q].known
                     THEN [NoForgot EXCEPT !.pc = "rejected"]
                     ELSE [@ EXCEPT !.pc = "save", !.token = q,
                                    !.expires = clock + ResetWindow]]
    /\ UNCHANGED <<tracker, healthCheck, user, clock, reset>>

\* save() completes with the two fields it was given; sendEmail is issued.
ForgotSaveDone(q) ==
    /\ forgot[q].pc = "save"
    /\ user' = [user EXCEPT !.resetPasswordToken = Sha256(forgot[q].token),
                            !.resetPasswordExpires = forgot[q].expires]
    /\ forgot' = [forgot EXCEPT ![q].pc = "mail"]
    /\ UNCHANGED <<tracker, healthCheck, clock, reset>>

\* sendEmail settles: 200, or, in the catch, the two fields are set to
\* undefined and save() is issued again.
ForgotMailDone(q, ok) ==
    /\ forgot[q].pc = "mail"
    /\ forgot' = [forgot EXCEPT ![q].pc = IF ok THEN "ok" ELSE "clear"]
    /\ UNCHANGED <<tracker, healthCheck, user, clock, reset>>

\* The save() of the catch block completes; 500.
ForgotClearDone(q) ==
    /\ forgot[q].pc = "clear"
    /\ user' = [user EXCEPT !.resetPasswordToken = Unset,
                            !.resetPasswordExpires = Unset]
    /\ forgot' = [forgot EXCEPT ![q].pc = "failed"]
    /\ UNCHANGED <<tracker, healthCheck, clock, reset>>

\* ------------------------------------------------- resetPassword
\* The three tests of the body.
BodyAccepted(body) ==
    /\ body.password # <<>>
    /\ body.confirmPassword # <<>>
    /\ body.password = body.confirmPassword
    /\ ~(Len(body.password) < MinPasswordLength)

\* POST /reset-password/:token: 400 at one of the tests of the body, else
\* User.findOne by the hash of the token and the expiry.
ResetPassword(q, token, body) ==
    /\ reset[q].pc = "idle"
    /\ reset' = [reset EXCEPT ![q] =
                    IF BodyAccepted(body)
                    THEN [pc |-> "find", token |-> token, password |-> body.password]
                    ELSE [NoReset EXCEPT !.pc = "rejected"]]
    /\ UNCHANGED <<tracker, healthCheck, user, clock, forgot>>

\* { resetPasswordToken: hashedToken, resetPasswordExpires: { $gt: Date.now() } }
TokenMatches(token) ==
    /\ user.resetPasswordToken = Sha256(token)
    /\ user.resetPasswordExpires > clock

\* User.findOne completes: 400 without a match; else bcrypt.hash, and then
\* save() of the document with the new password and the two fields undefined.
ResetFindDone(q) ==
    /\ reset[q].pc = "find"
    /\ reset' = [reset EXCEPT ![q] =
                    IF TokenMatches(reset[q].token)
                    THEN [@ EXCEPT !.pc = "save"]
                    ELSE [NoReset EXCEPT !.pc = "rejected"]]
    /\ UNCHANGED <<tracker, healthCheck, user, clock, forgot>>

\* save() completes; 200.
ResetSaveDone(q) ==
    /\ reset[q].pc = "save"
    /\ user' = [password |-> Bcrypt(reset[q].password),
                resetPasswordToken |-> Unset, resetPasswordExpires |-> Unset]
    /\ reset' = [reset EXCEPT ![q] = [@ EXCEPT !.pc = "ok", !.password = <<>>]]
    /\ UNCHANGED <<tracker, healthCheck, clock, forgot>>

\* Time passes.
ClockTick ==
    /\ clock < MaxClock
    /\ clock' = clock + Tick
    /\ UNCHANGED <<tracker, healthCheck, user, forgot, reset>>

\* ------------------------------------------------- the specification
\* The service as constructed: not running, nothing queued, lastScriptStartTime
\* = 0 (so the interval has long passed); the store holds the tracking records
\* as they were created.
StoreInit ==
    /\ classDocs = [c \in ClassIds |-> "none"]
    /\ notifications = <<>>
    /\ createPc = [c \in ClassIds |-> "new"]
    /\ deletePc = [c \in ClassIds |-> "idle"]
    /\ fill = [pc |-> "off", todo |-> <<>>]
    /\ ownerless = {}
    /\ refills = 0

\* The poller's course does not depend on the scratch directories: they are left
\* out here (no directory can be made) and followed in SpecScratch.
Init ==
    /\ isRunning = FALSE
    /\ startPc = "idle"
    /\ emailTransporter \in BOOLEAN
    /\ db = [r \in Records |-> NewNotification]
    /\ cycleCount = 0
    /\ mon = [c \in Cycles |-> NoMon]
    /\ monitoringTimer = 0
    /\ proc = [k \in Cycles \X Records |-> NoProc]
    /\ scriptCallQueue = <<>>
    /\ currentScriptCount = 0
    /\ sinceLastStart = MinScriptInterval
    /\ running = {}
    /\ backoff = {}
    /\ loopPc = "off"
    /\ loopLeft = 0
    /\ loop2 = [pc |-> "off", left |-> 0]
    /\ createdAt = [r \in Records |-> 0]
    /\ visits = [k \in Cycles \X Records |-> 0]
    /\ models = TRUE
    /\ earlyReturns = 0
    /\ SideInit
    /\ lastGap = MinScriptInterval
    /\ launches = [k \in Cycles \X Records |-> 0]
    /\ edges = [r \in Records |-> 0]
    /\ fired = [r \in Records |-> 0]
    /\ mailAttempts = [r \in Records |-> 0]
    /\ mailFailed = [r \in Records |-> FALSE]
    /\ invalid = {}
    /\ skipped = {}
    /\ cycleErrors = {}
    /\ lookupReqs = {}
    /\ tmpWritable = FALSE
    /\ tempDirs = {}
    /\ StoreInit

Next ==
    \/ Start
    \/ StartDone
    \/ LoopWake
    \/ LoopSpacingDone
    \/ \E x \in running, o \in Outcomes, j \in Jitters : ExecDone(x, o, j)
    \/ \E b \in backoff : BackoffFire(b)
    \/ \E c \in Cycles : MonCountDone(c)
    \/ \E c \in Cycles : MonLoadDone(c)
    \/ \E c \in Cycles : MonDelayDone(c)
    \/ \E c \in Cycles : MonTimerFire(c)
    \/ \E c \in Cycles, r \in Records : ProcUpdate1Done(c, r)
    \/ \E c \in Cycles, r \in Records, ok \in BOOLEAN : ProcEmailDone(c, r, ok)
    \/ \E c \in Cycles, r \in Records : ProcUpdate2Done(c, r)
    \/ Advance

\* The service from its start on, for as long as it is left running.
Spec == Init /\ [][Next]_vars

\* The same with stop() called at any moment.
NextLifecycle == Next \/ Stop

SpecLifecycle == Init /\ [][NextLifecycle]_vars

\* The store as the poller may find it: every record active or none, and
\* possibly a record whose user or class is gone.
StoreConfigs ==
    {[active |-> Records, invalid |-> {}],
     [active |-> Records, invalid |-> {1}],
     [active |-> {}, invalid |-> {}]}

InitFaults ==
    /\ isRunning = FALSE
    /\ startPc = "idle"
    /\ emailTransporter \in BOOLEAN
    /\ \E cfg \in StoreConfigs :
          /\ db = [r \in Records |->
                     [NewNotification EXCEPT !.is_active = (r \in cfg.active)]]
          /\ invalid = cfg.invalid
    /\ cycleCount = 0
    /\ mon = [c \in Cycles |-> NoMon]
    /\ monitoringTimer = 0
    /\ proc = [k \in Cycles \X Records |-> NoProc]
    /\ scriptCallQueue = <<>>
    /\ currentScriptCount = 0
    /\ sinceLastStart = MinScriptInterval
    /\ running = {}
    /\ backoff = {}
    /\ loopPc = "off"
    /\ loopLeft = 0
    /\ loop2 = [pc |-> "off", left |-> 0]
    /\ createdAt = [r \in Records |-> 0]
    /\ visits = [k \in Cycles \X Records |-> 0]
    /\ models = TRUE
    /\ earlyReturns = 0
    /\ SideInit
    /\ lastGap = MinScriptInterval
    /\ launches = [k \in Cycles \X Records |-> 0]
    /\ edges = [r \in Records |-> 0]
    /\ fired = [r \in Records |-> 0]
    /\ mailAttempts = [r \in Records |-> 0]
    /\ mailFailed = [r \in Records |-> FALSE]
    /\ skipped = {}
    /\ cycleErrors = {}
    /\ lookupReqs = {}
    /\ tmpWritable = FALSE
    /\ tempDirs = {}
    /\ StoreInit

\* The poller over a store that may fail: every lookup ends at its first run
\* (a seat status or an error field; the retries are the subject of Spec),
\* every store operation may reject.
NextFaults ==
    \/ Start
    \/ StartDone
    \/ LoopWake
    \/ LoopSpacingDone
    \/ \E x \in running, o \in SeatStatuses \cup {"error"} : ExecDone(x, o, 0)
    \/ \E c \in Cycles : MonCountDone(c)
    \/ \E c \in Cycles : MonCountFail(c)
    \/ \E c \in Cycles : MonLoadDone(c)
    \/ \E c \in Cycles : MonLoadFail(c)
    \/ \E c \in Cycles : MonDelayDone(c)
    \/ \E c \in Cycles : MonTimerFire(c)
    \/ \E c \in Cycles, r \in Records : ProcUpdate1Done(c, r)
    \/ \E c \in Cycles, r \in Records : ProcUpdateFail(c, r)
    \/ \E c \in Cycles, r \in Records, ok \in BOOLEAN : ProcEmailDone(c, r, ok)
    \/ \E c \in Cycles, r \in Records : ProcUpdate2Done(c, r)
    \/ Advance

SpecFaults == InitFaults /\ [][NextFaults]_vars

\* The server process: the poller (every lookup ending at its first run) and
\* the HTTP handler lookupClass side by side.
NextServer ==
    \/ Start
    \/ StartDone
    \/ LoopWake
    \/ LoopSpacingDone
    \/ \E x \in running, o \in SeatStatuses \cup {"error"} : ExecDone(x, o, 0)
    \/ \E c \in Cycles : MonCountDone(c)
    \/ \E c \in Cycles : MonLoadDone(c)
    \/ \E c \in Cycles : MonDelayDone(c)
    \/ \E c \in Cycles : MonTimerFire(c)
    \/ \E c \in Cycles, r \in Records : ProcUpdate1Done(c, r)
    \/ \E c \in Cycles, r \in Records, ok \in BOOLEAN : ProcEmailDone(c, r, ok)
    \/ \E c \in Cycles, r \in Records : ProcUpdate2Done(c, r)
    \/ \E q \in Requests : LookupClass(q)
    \/ \E q \in Requests : LookupClassDone(q)
    \/ Advance

SpecServer == Init /\ [][NextServer]_vars

\* The store under the API's createClass and deleteClass and the worker's
\* backfill at its start, the API and the worker being two processes.
NextTracking ==
    \/ \E c \in ClassIds : CreateClass(c)
    \/ \E c \in ClassIds, st \in SeatStatuses : ClassCreated(c, st)
    \/ \E c \in ClassIds : AddedFindDone(c)
    \/ \E c \in ClassIds : AddedCreateDone(c)
    \/ \E c \in ClassIds : DeleteClass(c)
    \/ \E c \in ClassIds : DeleteFindDone(c)
    \/ \E c \in ClassIds : DeleteForbidden(c)
    \/ \E c \in ClassIds : RemovedUpdateDone(c)
    \/ \E c \in ClassIds : ClassDeleted(c)
    \/ FillStart
    \/ FillFindDone
    \/ FillFindOneDone
    \/ FillCreateDone

SpecTracking == Init /\ [][NextTracking]_vars

\* The store with one batch of active records (the others were deactivated),
\* /tmp writable or not.
InitScratch ==
    /\ isRunning = FALSE
    /\ startPc = "idle"
    /\ emailTransporter \in BOOLEAN
    /\ db = [r \in Records |-> [NewNotification EXCEPT !.is_active = (r <= BatchSize)]]
    /\ cycleCount = 0
    /\ mon = [c \in Cycles |-> NoMon]
    /\ monitoringTimer = 0
    /\ proc = [k \in Cycles \X Records |-> NoProc]
    /\ scriptCallQueue = <<>>
    /\ currentScriptCount = 0
    /\ sinceLastStart = MinScriptInterval
    /\ running = {}
    /\ backoff = {}
    /\ loopPc = "off"
    /\ loopLeft = 0
    /\ loop2 = [pc |-> "off", left |-> 0]
    /\ createdAt = [r \in Records |-> 0]
    /\ visits = [k \in Cycles \X Records |-> 0]
    /\ models = TRUE
    /\ earlyReturns = 0
    /\ SideInit
    /\ lastGap = MinScriptInterval
    /\ launches = [k \in Cycles \X Records |-> 0]
    /\ edges = [r \in Records |-> 0]
    /\ fired = [r \in Records |-> 0]
    /\ mailAttempts = [r \in Records |-> 0]
    /\ mailFailed = [r \in Records |-> FALSE]
    /\ invalid = {}
    /\ skipped = {}
    /\ cycleErrors = {}
    /\ lookupReqs = {}
    /\ tmpWritable \in BOOLEAN
    /\ tempDirs = {}
    /\ StoreInit

\* The first cycle of the poller, with the scratch directories of its script
\* runs.
NextScratch ==
    \/ Start
    \/ StartDone
    \/ LoopWake
    \/ LoopSpacingDone
    \/ \E x \in running, o \in Outcomes, j \in Jitters : ExecDone(x, o, j)
    \/ \E b \in backoff : BackoffFire(b)
    \/ \E c \in Cycles : MonCountDone(c)
    \/ \E c \in Cycles : MonLoadDone(c)
    \/ \E c \in Cycles : MonDelayDone(c)
    \/ \E c \in Cycles, r \in Records : ProcUpdate1Done(c, r)
    \/ \E c \in Cycles, r \in Records, ok \in BOOLEAN : ProcEmailDone(c, r, ok)
    \/ \E c \in Cycles, r \in Records : ProcUpdate2Done(c, r)
    \/ Advance

SpecScratch == InitScratch /\ [][NextScratch]_vars

\* A tracking document as an earlier run of the service left it.
OldDocs ==
    {[last_status |-> "Open", notification_count |-> 1, is_active |-> TRUE],
     [last_status |-> "Closed", notification_count |-> 0, is_active |-> FALSE]}

\* The store the worker finds when it starts: classes with or without their
\* user, some of them tracked already, by an active document or an inactive one.
InitBackfill ==
    /\ isRunning = FALSE
    /\ startPc = "idle"
    /\ emailTransporter = TRUE
    /\ db = [r \in Records |-> NewNotification]
    /\ cycleCount = 0
    /\ mon = [c \in Cycles |-> NoMon]
    /\ monitoringTimer = 0
    /\ proc = [k \in Cycles \X Records |-> NoProc]
    /\ scriptCallQueue = <<>>
    /\ currentScriptCount = 0
    /\ sinceLastStart = MinScriptInterval
    /\ running = {}
    /\ backoff = {}
    /\ loopPc = "off"
    /\ loopLeft = 0
    /\ loop2 = [pc |-> "off", left |-> 0]
    /\ createdAt = [r \in Records |-> 0]
    /\ visits = [k \in Cycles \X Records |-> 0]
    /\ models = TRUE
    /\ earlyReturns = 0
    /\ SideInit
    /\ lastGap = MinScriptInterval
    /\ launches = [k \in Cycles \X Records |-> 0]
    /\ edges = [r \in Records |-> 0]
    /\ fired = [r \in Records |-> 0]
    /\ mailAttempts = [r \in Records |-> 0]
    /\ mailFailed = [r \in Records |-> FALSE]
    /\ invalid = {}
    /\ skipped = {}
    /\ cycleErrors = {}
    /\ lookupReqs = {}
    /\ tmpWritable = FALSE
    /\ tempDirs = {}
    /\ classDocs \in [ClassIds -> SeatStatuses \cup {"none"}]
    /\ ownerless \in SUBSET {c \in ClassIds : classDocs[c] # "none"}
    /\ \E tracked \in SUBSET ClassIds : \E old \in [tracked -> OldDocs] :
          notifications =
             [i \in 1..Cardinality(tracked) |->
                [class_id |-> InOrder(tracked)[i],
                 last_status |-> old[InOrder(tracked)[i]].last_status,
                 notification_count |-> old[InOrder(tracked)[i]].notification_count,
                 is_active |-> old[InOrder(tracked)[i]].is_active]]
    /\ createPc = [c \in ClassIds |-> "new"]
    /\ deletePc = [c \in ClassIds |-> "idle"]
    /\ fill = [pc |-> "off", todo |-> <<>>]
    /\ refills = 0

\* The backfill of a worker that starts, and starts again, on a store nobody
\* else writes to meanwhile.
NextBackfill ==
    \/ FillStart
    \/ FillFindDone
    \/ FillFindOneDone
    \/ FillCreateDone
    \/ FillAgain

SpecBackfill == InitBackfill /\ [][NextBackfill]_vars

\* The service over a store with one batch of active records.
InitLive ==
    /\ isRunning = FALSE
    /\ startPc = "idle"
    /\ emailTransporter = TRUE
    /\ db = [r \in Records |-> [NewNotification EXCEPT !.is_active = (r <= BatchSize)]]
    /\ cycleCount = 0
    /\ mon = [c \in Cycles |-> NoMon]
    /\ monitoringTimer = 0
    /\ proc = [k \in Cycles \X Records |-> NoProc]
    /\ scriptCallQueue = <<>>
    /\ currentScriptCount = 0
    /\ sinceLastStart = MinScriptInterval
    /\ running = {}
    /\ backoff = {}
    /\ loopPc = "off"
    /\ loopLeft = 0
    /\ loop2 = [pc |-> "off", left |-> 0]
    /\ createdAt = [r \in Records |-> 0]
    /\ visits = [k \in Cycles \X Records |-> 0]
    /\ models = TRUE
    /\ earlyReturns = 0
    /\ SideInit
    /\ lastGap = MinScriptInterval
    /\ launches = [k \in Cycles \X Records |-> 0]
    /\ edges = [r \in Records |-> 0]
    /\ fired = [r \in Records |-> 0]
    /\ mailAttempts = [r \in Records |-> 0]
    /\ mailFailed = [r \in Records |-> FALSE]
    /\ invalid = {}
    /\ skipped = {}
    /\ cycleErrors = {}
    /\ lookupReqs = {}
    /\ tmpWritable = FALSE
    /\ tempDirs = {}
    /\ StoreInit

\* What the event loop has to run once start() was called: the callbacks that
\* are ready, the ends of the script runs (by themselves or at the 45 s
\* timeout), the completions of the store and mail operations, and time. The
\* retry delays are taken without their jitter, which Spec covers.
Progress ==
    \/ StartDone
    \/ LoopWake
    \/ LoopSpacingDone
    \/ \E x \in running, o \in Outcomes : ExecDone(x, o, 0)
    \/ \E b \in backoff : BackoffFire(b)
    \/ \E c \in Cycles : MonCountDone(c)
    \/ \E c \in Cycles : MonLoadDone(c)
    \/ \E c \in Cycles : MonDelayDone(c)
    \/ \E c \in Cycles : MonTimerFire(c)
    \/ \E c \in Cycles, r \in Records : ProcUpdate1Done(c, r)
    \/ \E c \in Cycles, r \in Records, ok \in BOOLEAN : ProcEmailDone(c, r, ok)
    \/ \E c \in Cycles, r \in Records : ProcUpdate2Done(c, r)
    \/ Advance

\* The event loop does not stop while something is left to run.
Fairness == WF_vars(Progress)

\* The service left running, with its progress.
SpecLive == InitLive /\ [][Start \/ Progress]_vars /\ Fairness

\* The poller with lookups that end at their first run with a record, whose
\* seatStatus may be the sentinel.
NextSentinel ==
    \/ Start
    \/ StartDone
    \/ LoopWake
    \/ LoopSpacingDone
    \/ \E x \in running, o \in Parsed : ExecDone(x, o, 0)
    \/ \E c \in Cycles : MonCountDone(c)
    \/ \E c \in Cycles : MonLoadDone(c)
    \/ \E c \in Cycles : MonDelayDone(c)
    \/ \E c \in Cycles : MonTimerFire(c)
    \/ \E c \in Cycles, r \in Records : ProcUpdate1Done(c, r)
    \/ \E c \in Cycles, r \in Records, ok \in BOOLEAN : ProcEmailDone(c, r, ok)
    \/ \E c \in Cycles, r \in Records : ProcUpdate2Done(c, r)
    \/ Advance

SpecSentinel == Init /\ [][NextSentinel]_vars

\* The service started, and stopped at any moment, with its progress.
NextShutdown ==
    \/ Start
    \/ Progress
    \/ Stop

SpecShutdown == InitLive /\ [][NextShutdown]_vars /\ Fairness

\* The service started, stopped and started again, at any moments; every
\* lookup ends at its first run, the class closed or not found.
NextRestart ==
    \/ Start
    \/ StartDone
    \/ Stop
    \/ Restart
    \/ RestartDone
    \/ LoopWake
    \/ LoopSpacingDone
    \/ Loop2Wake
    \/ Loop2SpacingDone
    \/ \E x \in running, o \in {"Closed", "error"} : ExecDone(x, o, 0)
    \/ \E c \in Cycles : MonCountDone(c)
    \/ \E c \in Cycles : MonLoadDone(c)
    \/ \E c \in Cycles : MonDelayDone(c)
    \/ \E c \in Cycles : MonTimerFire(c)
    \/ \E c \in Cycles, r \in Records : ProcUpdate1Done(c, r)
    \/ Advance

SpecRestart == InitLive /\ [][NextRestart]_vars

\* The store with every record tracked, or all but the last, which a user may
\* come to track. db holds, for a record not yet created, its document to be,
\* inactive.
InitChurn ==
    /\ isRunning = FALSE
    /\ startPc = "idle"
    /\ emailTransporter = TRUE
    /\ \E n \in {NumRecords - 1, NumRecords} :
          /\ db = [r \in Records |-> [NewNotification EXCEPT !.is_active = (r <= n)]]
          /\ createdAt = [r \in Records |-> IF r <= n THEN 0 ELSE -1]
    /\ cycleCount = 0
    /\ mon = [c \in Cycles |-> NoMon]
    /\ monitoringTimer = 0
    /\ proc = [k \in Cycles \X Records |-> NoProc]
    /\ scriptCallQueue = <<>>
    /\ currentScriptCount = 0
    /\ sinceLastStart = MinScriptInterval
    /\ running = {}
    /\ backoff = {}
    /\ loopPc = "off"
    /\ loopLeft = 0
    /\ loop2 = [pc |-> "off", left |-> 0]
    /\ visits = [k \in Cycles \X Records |-> 0]
    /\ models = TRUE
    /\ earlyReturns = 0
    /\ SideInit
    /\ lastGap = MinScriptInterval
    /\ launches = [k \in Cycles \X Records |-> 0]
    /\ edges = [r \in Records |-> 0]
    /\ fired = [r \in Records |-> 0]
    /\ mailAttempts = [r \in Records |-> 0]
    /\ mailFailed = [r \in Records |-> FALSE]
    /\ invalid = {}
    /\ skipped = {}
    /\ cycleErrors = {}
    /\ lookupReqs = {}
    /\ tmpWritable = FALSE
    /\ tempDirs = {}
    /\ StoreInit

\* The first cycle of the poller while users track and untrack classes through
\* the API. A lookup ends with a seat status, at its first run or at the one
\* after a failure.
NextChurn ==
    \/ Start
    \/ StartDone
    \/ LoopWake
    \/ LoopSpacingDone
    \/ \E x \in running : \E o \in (IF x.retries = 0 THEN SeatStatuses \cup {"fail"} ELSE SeatStatuses) :
          ExecDone(x, o, 0)
    \/ \E b \in backoff : BackoffFire(b)
    \/ \E c \in Cycles : MonCountDone(c)
    \/ \E c \in Cycles : MonLoadDone(c)
    \/ \E c \in Cycles : MonDelayDone(c)
    \/ \E c \in Cycles, r \in Records : ProcUpdate1Done(c, r)
    \/ \E c \in Cycles, r \in Records, ok \in BOOLEAN : ProcEmailDone(c, r, ok)
    \/ \E c \in Cycles, r \in Records : ProcUpdate2Done(c, r)
    \/ \E r \in Records : HandleClassRemoved(r)
    \/ \E r \in Records : HandleClassAdded(r)
    \/ Advance

SpecChurn == InitChurn /\ [][NextChurn]_vars

\* The service as constructed, the imports of the models having worked or not.
InitAgain ==
    /\ isRunning = FALSE
    /\ startPc = "idle"
    /\ emailTransporter = TRUE
    /\ db = [r \in Records |-> [NewNotification EXCEPT !.is_active = (r <= BatchSize)]]
    /\ cycleCount = 0
    /\ mon = [c \in Cycles |-> NoMon]
    /\ monitoringTimer = 0
    /\ proc = [k \in Cycles \X Records |-> NoProc]
    /\ scriptCallQueue = <<>>
    /\ currentScriptCount = 0
    /\ sinceLastStart = MinScriptInterval
    /\ running = {}
    /\ backoff = {}
    /\ loopPc = "off"
    /\ loopLeft = 0
    /\ loop2 = [pc |-> "off", left |-> 0]
    /\ createdAt = [r \in Records |-> 0]
    /\ visits = [k \in Cycles \X Records |-> 0]
    /\ models \in BOOLEAN
    /\ earlyReturns = 0
    /\ SideInit
    /\ lastGap = MinScriptInterval
    /\ launches = [k \in Cycles \X Records |-> 0]
    /\ edges = [r \in Records |-> 0]
    /\ fired = [r \in Records |-> 0]
    /\ mailAttempts = [r \in Records |-> 0]
    /\ mailFailed = [r \in Records |-> FALSE]
    /\ invalid = {}
    /\ skipped = {}
    /\ cycleErrors = {}
    /\ lookupReqs = {}
    /\ tmpWritable = FALSE
    /\ tempDirs = {}
    /\ StoreInit

\* The service with start() called at any moment, any number of times.
NextAgain ==
    \/ Start
    \/ StartCall
    \/ Progress

SpecAgain == InitAgain /\ [][NextAgain]_vars

\* The combined server from checkDatabaseConnection on, and the first cycle
\* of the service it starts, every lookup ending at its first run, the class
\* closed or not found.
NextBoot ==
    \/ \E m \in HealthRetries, o \in ReadyStates : CheckDatabaseConnection(m, o)
    \/ \E o \in ReadyStates : RetryIntervalDone(o)
    \/ BootStart
    \/ StartDone
    \/ LoopWake
    \/ LoopSpacingDone
    \/ \E x \in running, o \in {"Closed", "error"} : ExecDone(x, o, 0)
    \/ \E c \in Cycles : MonCountDone(c)
    \/ \E c \in Cycles : MonLoadDone(c)
    \/ \E c \in Cycles : MonDelayDone(c)
    \/ \E c \in Cycles, r \in Records : ProcUpdate1Done(c, r)
    \/ Advance

\* A timer that was set fires.
SleepEnds == WF_vars(\E o \in ReadyStates : RetryIntervalDone(o))

SpecBoot == InitLive /\ [][NextBoot]_vars /\ SleepEnds

\* The user controller with its requests about one account, handled side by
\* side as their awaits allow.
NextAuth ==
    \/ \E q \in Requests, email \in {"none", "known", "unknown"} : ForgotPassword(q, email)
    \/ \E q \in Requests : ForgotFindDone(q)
    \/ \E q \in Requests : ForgotSaveDone(q)
    \/ \E q \in Requests, ok \in BOOLEAN : ForgotMailDone(q, ok)
    \/ \E q \in Requests : ForgotClearDone(q)
    \/ \E q \in Requests, token \in Presented, body \in Bodies : ResetPassword(q, token, body)
    \/ \E q \in Requests : ResetFindDone(q)
    \/ \E q \in Requests : ResetSaveDone(q)
    \/ ClockTick

SpecAuth == InitLive /\ [][NextAuth]_vars

\* ------------------------------------------------- the claims
\* The entries of the requests still outstanding.
QueueEntries == {scriptCallQueue[i] : i \in 1..Len(scriptCallQueue)}

LiveKeys ==
    {<<e.cyc, e.rec>> : e \in QueueEntries}
    \cup {<<x.cyc, x.rec>> : x \in running}
    \cup {<<b.cyc, b.rec>> : b \in backoff}

\* The invocations of processNotification for record r that took the notify
\* branch and have not yet returned.
Notifying(r) == {c \in Cycles : proc[<<c, r>>].pc \in {"email", "update2"}}

\* C1: at most maxConcurrentScripts (1) lookups are in flight at any instant,
\* and currentScriptCount is the number of lookups in flight.
C1_AtMostOneInFlight ==
    /\ currentScriptCount <= MaxConcurrentScripts
    /\ currentScriptCount = Cardinality(running)

\* One lookup in flight and another request waiting although the minimum
\* interval has passed: only the limit holds the second launch back.
C1_Witness ==
    /\ currentScriptCount = 1
    /\ Len(scriptCallQueue) > 0
    /\ sinceLastStart = MinScriptInterval
    /\ loopPc = "sleep"

\* C2: per record, the notify branch is taken exactly as often as a first
\* update replaces a stored Closed by an observed Open, and sendMail is called
\* at most once per notification.
C2_NotifyOncePerEdge ==
    \A r \in Records :
        /\ fired[r] = edges[r]
        /\ mailAttempts[r] <= fired[r]

\* A record notified in cycle 1 and observed Open again in cycle 2, with no
\* second notification.
C2_Witness ==
    \E r \in Records :
        /\ db[r].notification_sent = 1
        /\ db[r].last_checked = 2
        /\ db[r].last_status = "Open"
        /\ fired[r] = 1
        /\ proc[<<2, r>>].pc = "none"

\* C3: at every launch at least minScriptInterval (2000 ms) have passed since
\* the launch before.
C3_MinSpacing == lastGap >= MinScriptInterval

\* A retried entry is in flight (so earlier launches have completed) while
\* another request waits for the next launch.
C3_Witness ==
    /\ \E x \in running : x.retries > 0
    /\ Len(scriptCallQueue) > 0
    /\ sinceLastStart < MinScriptInterval

\* C4: a run that ends with an error field resolves the request with null at
\* once: no retry timer, no queue entry, nothing of the request left.
C4_NotFoundNeverRetried ==
    [][\A x \in running :
          ExecDone(x, "error", 0) =>
              /\ proc'[<<x.cyc, x.rec>>] = NoProc
              /\ backoff' = backoff
              /\ scriptCallQueue' = scriptCallQueue
              /\ <<x.cyc, x.rec>> \notin LiveKeys']_vars

\* Record 1 is through with its check after a single launch (record 2, queued
\* behind it, is still on its first run), unchanged and with no retry pending.
C4_Witness ==
    /\ mon[1].pc = "gather"
    /\ proc[<<1, 1>>].pc = "none"
    /\ db[1].last_checked = 0
    /\ \E x \in running : x.rec = 2 /\ x.retries = 0
    /\ backoff = {}
    /\ scriptCallQueue = <<>>

\* C5: no entry is ever queued or launched with more than maxRetries (3)
\* retries, a retry timer exists only for a failure below maxRetries, and a
\* request is launched at most 4 times.
C5_RetriesBounded ==
    /\ \A e \in QueueEntries : e.retries <= MaxRetries
    /\ \A x \in running :
          /\ x.retries <= MaxRetries
          /\ launches[<<x.cyc, x.rec>>] = x.retries + 1
    /\ \A b \in backoff : b.retries < MaxRetries
    /\ \A k \in Cycles \X Records : launches[k] <= MaxRetries + 1

\* The 4th launch of a request is in flight.
C5_Witness ==
    \E x \in running :
        /\ x.retries = MaxRetries
        /\ launches[<<x.cyc, x.rec>>] = MaxRetries + 1

\* C6: the delay of a retry timer set at retry count r (0, 1, 2) is at least
\* 2^r * 3000 and at most 2^r * 3000 + 1000, and at least the largest delay
\* the same entry can have had at retry count r - 1, so an entry's delays
\* never decrease.
C6_BackoffBounds ==
    \A b \in backoff :
        /\ b.retries \in 0..(MaxRetries - 1)
        /\ b.delay >= (2 ^ b.retries) * BackoffBase
        /\ b.delay <= (2 ^ b.retries) * BackoffBase + JitterMax
        /\ b.retries > 0 => b.delay >= (2 ^ (b.retries - 1)) * BackoffBase + JitterMax
        /\ b.left <= b.delay

\* The third backoff of an entry, with the largest jitter, has just been set
\* while another entry waits out a backoff of its own.
C6_Witness ==
    \E b \in backoff :
        /\ b.retries = 2
        /\ b.delay = 4 * BackoffBase + JitterMax - 1
        /\ b.left = b.delay
        /\ \E b2 \in backoff : b2.rec # b.rec

\* C7: as soon as the email of a transition is attempted, lastStatus = Open
\* and lastCheckedAt are stored, whatever becomes of the email; after a failed
\* email the stored status stays Open until a Closed observation is stored, and
\* no notification is attempted for the record in between.
C7_StatusPersistedDespiteEmail ==
    \A r \in Records :
        /\ \A c \in Notifying(r) :
              /\ db[r].last_status = "Open"
              /\ db[r].last_checked = c
        /\ mailFailed[r] => db[r].last_status = "Open"
        /\ mailFailed[r] => \A c \in Cycles : proc[<<c, r>>].pc # "email"

\* The email of cycle 1 failed; cycle 2 has observed Open again and is done
\* with the record without another notification.
C7_Witness ==
    \E r \in Records :
        /\ mailFailed[r]
        /\ db[r].last_checked = 2
        /\ db[r].notification_count = 1
        /\ mailAttempts[r] = 1
        /\ proc[<<2, r>>].pc = "none"

\* C8 as stated: every first update that replaces a stored Closed by an
\* observed Open comes with exactly one sendMail call, whatever the
\* configuration.
C8_OneEmailPerTransition ==
    \A r \in Records : mailAttempts[r] = edges[r]

\* C8 (amended): every first update that replaces a stored Closed by an
\* observed Open leads to exactly one sendMail call when a transporter is
\* configured and to none when emailTransporter is null, and in both cases to
\* notification_count + 1 with notification_sent set; while that is under
\* way the stored count is still the one loaded, last_status is Open and
\* last_checked is the current cycle's.
C8_TransitionEffects ==
    \A r \in Records :
        /\ edges[r] = db[r].notification_count + Cardinality(Notifying(r))
        /\ mailAttempts[r] = IF emailTransporter THEN edges[r] ELSE 0
        /\ \A c \in Notifying(r) :
              /\ proc[<<c, r>>].notification_count = db[r].notification_count
              /\ db[r].last_status = "Open"
              /\ db[r].last_checked = c
        /\ db[r].notification_count > 0 =>
              /\ db[r].notification_sent \in 1..cycleCount
              /\ db[r].notification_sent <= db[r].last_checked

\* A record went from Closed to Open in cycle 2 (it was checked, and stayed
\* Closed, in cycle 1): one email attempt, count 1, sent and checked in cycle 2.
C8_Witness ==
    \E r \in Records :
        /\ emailTransporter
        /\ edges[r] = 1
        /\ mailAttempts[r] = 1
        /\ db[r].notification_count = 1
        /\ db[r].notification_sent = 2
        /\ db[r].last_status = "Open"
        /\ db[r].last_checked = 2
        /\ proc[<<2, r>>].pc = "none"

\* C9: when a lookup ends as failed (error field, or a retryable failure at
\* maxRetries), processNotification returns at once: the store, the emails
\* and the notification counters are as they were, and while a lookup is
\* outstanding the stored status and count are those loaded.
C9_FailedLookupChangesNothing ==
    /\ [](\A k \in Cycles \X Records :
            proc[k].pc = "lookup" =>
                /\ db[k[2]].last_status = proc[k].last_status
                /\ db[k[2]].notification_count = proc[k].notification_count)
    /\ [][\A x \in running, o \in {"error"} \cup Retryable :
            (ExecDone(x, o, 0) /\ Classify(o, x.retries) = "null") =>
                /\ db' = db
                /\ proc'[<<x.cyc, x.rec>>] = NoProc
                /\ mailAttempts' = mailAttempts
                /\ fired' = fired]_vars

\* Cycle 1 is over and record 1, active throughout, is exactly as created:
\* its check was skipped.
C9_Witness ==
    /\ mon[1].pc = "timer"
    /\ db[1] = NewNotification
    /\ mailAttempts[1] = 0
    /\ \E r \in Records : db[r].last_checked = 1

\* The cycles between their first await and their setTimeout.
ActiveCycles == {c \in Cycles : mon[c].pc \in {"count", "load", "gather", "delay"}}

\* C10: at most one cycle is under way or has its timer pending; a cycle
\* that has set its timer has no lookup and no processNotification left; a
\* cycle starts only after every earlier one has ended and its timer fired;
\* no record is under processing by two cycles.
C10_CyclesNeverOverlap ==
    /\ Cardinality(ActiveCycles) + Cardinality({c \in Cycles : mon[c].pc = "timer"}) <= 1
    /\ \A c \in Cycles :
          mon[c].pc \in {"timer", "done", "cleared"} =>
              /\ \A r \in Records : proc[<<c, r>>].pc = "none"
              /\ \A k \in LiveKeys : k[1] # c
    /\ \A c \in Cycles :
          mon[c].pc # "none" => \A c2 \in 1..(c - 1) : mon[c2].pc = "done"
    /\ \A r \in Records : Cardinality({c \in Cycles : proc[<<c, r>>].pc # "none"}) <= 1

\* The second cycle is in its second batch, after the first cycle ended.
C10_Witness ==
    /\ mon[1].pc = "done"
    /\ mon[2].pc = "gather"
    /\ mon[2].batch = 1
    /\ running # {}

\* The requests and invocations of processNotification a cycle has outstanding.
Outstanding(c) ==
    {r \in Records : <<c, r>> \in LiveKeys \/ proc[<<c, r>>].pc # "none"}

\* C11: a cycle over n active records runs ceil(n / batchSize) batches of at
\* most batchSize records, each active record in exactly one of them; whatever
\* a cycle has outstanding belongs to the batch it is gathering; and a batch
\* is loaded only from the pause of the batch before, which starts at 1000 ms
\* when that batch has settled and is left only when it has run out.
C11_BatchesInSequence ==
    /\ [](\A c \in Cycles :
            /\ mon[c].pc \in {"load", "gather", "delay"} =>
                  /\ mon[c].total * BatchSize >= Cardinality(Active)
                  /\ (mon[c].total - 1) * BatchSize < Cardinality(Active)
                  /\ mon[c].batch < mon[c].total
                  /\ \A b \in 0..(mon[c].total - 1) : Cardinality(Page(b)) \in 1..BatchSize
                  /\ \A r \in Active :
                        Cardinality({b \in 0..(mon[c].total - 1) : r \in Page(b)}) = 1
            /\ Outstanding(c) # {} =>
                  /\ mon[c].pc = "gather"
                  /\ Outstanding(c) \subseteq Page(mon[c].batch))
    /\ [][\A c \in Cycles :
            /\ (mon[c].pc # "delay" /\ mon'[c].pc = "delay") =>
                  /\ Outstanding(c)' = {}
                  /\ mon'[c].left = BatchDelay
            /\ (mon[c].pc = "delay" /\ mon'[c].pc # "delay") => mon[c].left = 0
            /\ (mon'[c].pc = "load" /\ mon'[c].batch > 0 /\ mon'[c] # mon[c]) =>
                  /\ mon[c].pc = "delay"
                  /\ mon'[c].batch = mon[c].batch + 1]_vars

\* The second batch of cycle 1 (the third record alone) is being gathered,
\* the two records of the first batch having been checked.
C11_Witness ==
    /\ mon[1].pc = "gather"
    /\ mon[1].batch = 1
    /\ mon[1].total = 2
    /\ Outstanding(1) = {3}
    /\ db[1].last_checked = 1
    /\ db[2].last_checked = 1

\* C12: a check that ends without its updates (failed lookup, rejected store
\* write, record without user or class) ends alone: a cycle never leaves an
\* invocation or a request behind, and when a cycle that met no cycle-level
\* error sets its timer, every active record was either checked in this cycle
\* or is one of those whose own check failed.
C12_FailuresIsolated ==
    \A c \in Cycles :
        /\ Outstanding(c) # {} => mon[c].pc = "gather"
        /\ (c = cycleCount /\ mon[c].pc = "timer" /\ c \notin cycleErrors) =>
              \A r \in Active : r \in skipped \/ db[r].last_checked = c
        /\ c = cycleCount => invalid \cap Page(mon[c].batch) \cap Outstanding(c) = {}
        /\ c = cycleCount => skipped \cap Outstanding(c) = {}

\* In the first batch record 1 has no user and record 2 was checked; in the
\* second, record 3's second update was rejected after its transition; the
\* cycle has ended in the ordinary way.
C12_Witness ==
    /\ mon[1].pc = "timer"
    /\ cycleErrors = {}
    /\ invalid = {1}
    /\ skipped = {1, 3}
    /\ db[2].last_checked = 1
    /\ edges[3] = 1
    /\ db[3].notification_count = 0

\* C16: a cycle that ends in the catch of monitorClasses sets its timer to the
\* full check interval in the same step; the service stays running with its
\* queue loop alive, the timer stays the service's timer until it fires, and
\* the cycle after it then starts.
C16_CycleErrorCaught ==
    /\ [](\A c \in cycleErrors :
            /\ isRunning
            /\ loopPc \in {"sleep", "spacing"}
            /\ mon[c].pc \in {"timer", "done"}
            /\ mon[c].pc = "timer" => monitoringTimer = c /\ mon[c].left <= CheckInterval
            /\ mon[c].pc = "done" => mon[c + 1].pc # "none")
    /\ [][\A c \in Cycles :
            (c \notin cycleErrors /\ c \in cycleErrors') =>
                /\ mon'[c].pc = "timer"
                /\ mon'[c].left = CheckInterval
                /\ monitoringTimer' = c
                /\ db' = db]_vars

\* The first cycle failed at the load of its second batch; five minutes on,
\* the second cycle is gathering its first batch.
C16_Witness ==
    /\ cycleErrors = {1}
    /\ mon[1].batch = 1
    /\ mon[1].pc = "done"
    /\ mon[2].pc = "gather"
    /\ running # {}

\* C19: while no record is active, no cycle enqueues a lookup, starts a
\* processNotification, writes to the store or sends an email: a cycle goes
\* from its count straight to its timer (or to the catch, and then its timer).
C19_NoRecordsNoOp ==
    (\A r \in Records : ~db[r].is_active) =>
        /\ scriptCallQueue = <<>> /\ running = {} /\ backoff = {}
        /\ \A k \in Cycles \X Records : proc[k] = NoProc
        /\ \A r \in Records :
              /\ db[r] = [NewNotification EXCEPT !.is_active = FALSE]
              /\ mailAttempts[r] = 0
        /\ \A c \in Cycles :
              /\ mon[c].pc \in {"none", "count", "timer", "done"}
              /\ mon[c].pc = "timer" => monitoringTimer = c /\ mon[c].left <= CheckInterval
              /\ mon[c].pc = "done" => mon[c + 1].pc # "none"

\* Nothing is tracked: the first cycle came and went without error, and the
\* second has set its timer as well.
C19_Witness ==
    /\ \A r \in Records : ~db[r].is_active
    /\ cycleErrors = {}
    /\ mon[1].pc = "done"
    /\ mon[2].pc = "timer"
    /\ mon[2].left = CheckInterval

\* C17: a rejected sendMail leaves processNotification where a successful one
\* does, at its second update, with the cycle, the service and the number of
\* send attempts untouched; there are never more send attempts for a record
\* than transitions, and none while its latest send counts as failed.
C17_EmailFailureContained ==
    /\ [](\A r \in Records :
            /\ mailAttempts[r] <= edges[r]
            /\ mailFailed[r] =>
                  /\ mailAttempts[r] > 0
                  /\ \A c \in Cycles : proc[<<c, r>>].pc # "email")
    /\ [][\A c \in Cycles, r \in Records :
            ProcEmailDone(c, r, FALSE) =>
                /\ proc'[<<c, r>>] = [proc[<<c, r>>] EXCEPT !.pc = "update2"]
                /\ mon' = mon
                /\ mailAttempts' = mailAttempts
                /\ isRunning' = isRunning
                /\ scriptCallQueue' = scriptCallQueue]_vars

\* The send for a record failed; its count was incremented all the same, the
\* cycle ended and the next one is under way.
C17_Witness ==
    \E r \in Records :
        /\ mailFailed[r]
        /\ mailAttempts[r] = 1
        /\ db[r].notification_count = 1
        /\ db[r].notification_sent = 1
        /\ mon[1].pc = "done"
        /\ mon[2].pc = "gather"

\* C18: without a transporter no sendMail is ever called and no send ever
\* fails, while a transition is handled as with one: the first update has
\* stored Open and the cycle's time before the second update is issued, and
\* every transition ends in the count's increment.
C18_NoChannelNoEmail ==
    ~emailTransporter =>
        \A r \in Records :
            /\ mailAttempts[r] = 0
            /\ ~mailFailed[r]
            /\ \A c \in Cycles : proc[<<c, r>>].pc # "email"
            /\ fired[r] = db[r].notification_count + Cardinality(Notifying(r))
            /\ \A c \in Notifying(r) :
                  /\ proc[<<c, r>>].pc = "update2"
                  /\ db[r].last_status = "Open"
                  /\ db[r].last_checked = c

\* Without a transporter, a record that stayed Closed in cycle 1 has opened in
\* cycle 2: status and time are stored, the count is 1, no mail was attempted.
C18_Witness ==
    \E r \in Records :
        /\ ~emailTransporter
        /\ fired[r] = 1
        /\ db[r].last_status = "Open"
        /\ db[r].last_checked = 2
        /\ db[r].notification_count = 1
        /\ db[r].notification_sent = 2
        /\ mailAttempts[r] = 0
        /\ proc[<<2, r>>] = NoProc

\* C13: at no instant do two invocations of the script run in the process,
\* those of executeClassScript and those of lookupClass counted together.
C13_ScraperExclusive ==
    Cardinality(running) + Cardinality(lookupReqs) <= 1

\* C14: no pair (user, class) ever has two active tracking documents.
C14_OneActivePerPair ==
    \A c \in ClassIds :
        Cardinality({i \in DocsOf(c) : notifications[i].is_active}) <= 1

\* C20: handleClassAdded for a class that exists appends exactly one tracking
\* document for the pair, active, Closed and with count 0, whatever the
\* class's seatStatus, and changes no other document; for a class that does
\* not exist it returns from its findById without touching the collection.
C20_ClassAddedCreatesOne ==
    [][\A c \in ClassIds :
          /\ (createPc[c] = "addFind" /\ createPc'[c] # "addFind") =>
                /\ notifications' = notifications
                /\ createPc'[c] = IF classDocs[c] = "none" THEN "end" ELSE "addCreate"
          /\ (createPc[c] = "addCreate" /\ createPc'[c] # "addCreate") =>
                /\ createPc'[c] = "end"
                /\ notifications' =
                      Append(notifications,
                             [class_id |-> c, last_status |-> "Closed",
                              notification_count |-> 0, is_active |-> TRUE])]_vars

\* Class 1, created with seats open, has its one document, Closed; class 2
\* was deleted before handleClassAdded looked it up and has none.
C20_Witness ==
    /\ fill.pc = "off"
    /\ createPc = <<"end", "end">>
    /\ classDocs[1] = "Open"
    /\ Len(notifications) = 1
    /\ notifications[1] = [class_id |-> 1, last_status |-> "Closed",
                           notification_count |-> 0, is_active |-> TRUE]
    /\ deletePc[2] = "end"

\* C15: every scratch directory that exists belongs to a script run still in
\* progress; the directory of a run that has ended, however it ended, is gone.
C15_ScratchDirRemoved ==
    \A d \in tempDirs : \E x \in running : TempDir(x) = d

\* C21: untracking is a soft delete. The findOneAndUpdate of
\* handleClassRemoved changes one document of the pair at most, and only its
\* is_active, which becomes false; and no step of any handler takes a document
\* out of the collection or gives a place in it to another pair.
C21_SoftDelete ==
    [][/\ Len(notifications') >= Len(notifications)
       /\ \A i \in 1..Len(notifications) :
             notifications'[i].class_id = notifications[i].class_id
       /\ \A c \in ClassIds :
             (deletePc[c] = "update" /\ deletePc'[c] # "update") =>
                /\ Len(notifications') = Len(notifications)
                /\ \A i \in 1..Len(notifications) :
                      \/ notifications'[i] = notifications[i]
                      \/ /\ i = Min(DocsOf(c))
                         /\ notifications'[i] =
                               [notifications[i] EXCEPT !.is_active = FALSE]]_vars

\* A class was deleted: the class document is gone, its tracking document is
\* still in the collection, inactive, with its status and count.
C21_Witness ==
    \E c \in ClassIds :
        /\ deletePc[c] = "end"
        /\ classDocs[c] = "none"
        /\ DocsOf(c) # {}
        /\ notifications[Min(DocsOf(c))] =
              [class_id |-> c, last_status |-> "Closed",
               notification_count |-> 0, is_active |-> FALSE]

\* C22: the backfill gives a document, Closed and active, to every class that
\* has its user and no document of the pair, active or not; it adds nothing for
\* any other class and changes no document there was; so every class with its
\* user is tracked when the backfill ends, and a backfill run again adds nothing.
C22_BackfillOnce ==
    /\ [](fill.pc = "end" =>
            \A c \in ClassIds :
               (classDocs[c] # "none" /\ c \notin ownerless) =>
                  Cardinality({i \in 1..Len(notifications) :
                                  notifications[i].class_id = c}) = 1)
    /\ [][/\ \/ notifications' = notifications
             \/ \E c \in ClassIds :
                   /\ classDocs[c] # "none"
                   /\ c \notin ownerless
                   /\ \A i \in 1..Len(notifications) : notifications[i].class_id # c
                   /\ notifications' =
                         Append(notifications,
                                [class_id |-> c, last_status |-> "Closed",
                                 notification_count |-> 0, is_active |-> TRUE])
          /\ refills >= 1 => notifications' = notifications]_vars

\* The second run has ended on a store where class 1 was tracked by an
\* inactive document, which is as it was, and class 2 by none, which the first
\* run made.
C22_Witness ==
    /\ refills = 1
    /\ fill.pc = "end"
    /\ ownerless = {}
    /\ classDocs = <<"Open", "Open">>
    /\ notifications =
          <<[class_id |-> 1, last_status |-> "Closed", notification_count |-> 0,
             is_active |-> FALSE],
            [class_id |-> 2, last_status |-> "Closed", notification_count |-> 0,
             is_active |-> TRUE]>>

\* The places a request of getClassStatus is at: waiting in the queue, running,
\* waiting out a backoff.
Places(k) ==
    Cardinality({i \in 1..Len(scriptCallQueue) :
                    <<scriptCallQueue[i].cyc, scriptCallQueue[i].rec>> = k})
    + Cardinality({x \in running : <<x.cyc, x.rec>> = k})
    + Cardinality({b \in backoff : <<b.cyc, b.rec>> = k})

\* C23: a request is at one place at most, and it is at one exactly as long as
\* its caller awaits the promise: once the promise is resolved nothing of the
\* request is left that could resolve it again or enqueue it again.
C23_EntryConsumedOnce ==
    \A k \in Cycles \X Records :
        /\ Places(k) <= 1
        /\ (Places(k) = 1) <=> (proc[k].pc = "lookup")

\* A request that failed more than once waits out its backoff, another one of
\* the batch runs.
C23_Witness ==
    /\ \E b \in backoff : b.retries >= 1 /\ Places(<<b.cyc, b.rec>>) = 1
    /\ \E x \in running : Places(<<x.cyc, x.rec>>) = 1

\* C24: every request of getClassStatus is resolved in the end, and every
\* cycle that has started comes to set the timer of the next one.
C24_RequestsResolved ==
    /\ \A k \in Cycles \X Records :
          (proc[k].pc = "lookup") ~> (proc[k].pc # "lookup")
    /\ \A c \in Cycles :
          (mon[c].pc \in {"count", "load", "gather", "delay"})
             ~> (mon[c].pc \in {"timer", "done"})

\* The second cycle has set its timer after a request of its batch was
\* resolved with null.
C24_Witness ==
    /\ mon[2].pc = "timer"
    /\ skipped # {}
    /\ \A k \in Cycles \X Records : proc[k].pc = "none"

\* C25: the queue is first in, first out. Entries join it at its end only; a
\* launch takes its head, and happens only with an entry waiting, nothing in
\* flight and the minimum interval since the last launch over.
C25_FifoDispatch ==
    [][/\ \/ scriptCallQueue' = scriptCallQueue
          \/ /\ Len(scriptCallQueue) > 0
             /\ scriptCallQueue' = Tail(scriptCallQueue)
          \/ /\ Len(scriptCallQueue') > Len(scriptCallQueue)
             /\ SubSeq(scriptCallQueue', 1, Len(scriptCallQueue)) = scriptCallQueue
       /\ (running' \ running # {}) =>
             /\ Len(scriptCallQueue) > 0
             /\ running' \ running = {Head(scriptCallQueue)}
             /\ scriptCallQueue' = Tail(scriptCallQueue)
             /\ currentScriptCount = 0
             /\ sinceLastStart >= MinScriptInterval]_vars

\* The entry of a retry, pushed behind a first request that still waits.
C25_Witness ==
    /\ Len(scriptCallQueue) = 2
    /\ scriptCallQueue[1].retries = 0
    /\ scriptCallQueue[2].retries >= 1

\* C26: the last_status of every tracking record is Open or Closed.
C26_StatusOpenOrClosed ==
    \A r \in Records : db[r].last_status \in SeatStatuses

C28_LoopEndsOnStopOnly ==
    /\ [](/\ loopPc # "crashed"
          /\ loopPc = "exited" => ~isRunning
          /\ (isRunning /\ startPc = "done") => loopPc \in {"sleep", "spacing"})
    /\ (~isRunning /\ startPc # "idle") ~> (loopPc = "exited")

\* stop() was called while a request was waiting out its last backoff and
\* the loop was asleep; the loop has ended.
C28_Witness ==
    /\ loopPc = "exited"
    /\ ~isRunning
    /\ \E b \in backoff : b.retries = MaxRetries - 1

\* C30: once stop() was called no script run is launched and no email is
\* handed to the transporter.
C30_QuietAfterStop ==
    [][(~isRunning /\ startPc = "done") =>
          /\ running' \subseteq running
          /\ mailAttempts' = mailAttempts]_vars

\* C29: with the service stopped and started again there is one loop of
\* processScriptQueue at most and one cycle at most, no more than one script
\* run in flight, and no loop that took from an empty queue.
C29_OneLoopOneCycle ==
    /\ ~(loopPc \in {"sleep", "spacing"} /\ loop2.pc \in {"sleep", "spacing"})
    /\ Cardinality(ActiveCycles) <= 1
    /\ currentScriptCount <= MaxConcurrentScripts
    /\ loopPc # "crashed"
    /\ loop2.pc # "crashed"

\* C31: when a cycle has ended without a cycle-level error, every record that
\* was created before the cycle started and is still active has had
\* processNotification called for it exactly once in that cycle, and no
\* record more than once, whatever was tracked or untracked meanwhile.
C31_ActiveProcessedOnce ==
    \A c \in Cycles :
        /\ \A r \in Records : visits[<<c, r>>] <= 1
        /\ (mon[c].pc \in {"timer", "done"} /\ c \notin cycleErrors) =>
              \A r \in Records :
                  (createdAt[r] \in 0..(c - 1) /\ db[r].is_active) =>
                      visits[<<c, r>>] = 1

\* C32: once handleClassRemoved has deactivated a record, no email is handed
\* to the transporter for it and its document is written no more, wherever
\* the check of the record stood at that moment.
C32_NothingAfterDeactivation ==
    [][\A r \in Records :
          (createdAt[r] >= 0 /\ ~db[r].is_active) =>
              /\ db'[r] = db[r]
              /\ mailAttempts'[r] = mailAttempts[r]]_vars

\* The lookup entries outstanding: waiting in the queue, running, or waiting
\* out a retry backoff.
OutstandingEntries ==
    Len(scriptCallQueue) + Cardinality(running) + Cardinality(backoff)

\* C33: at every instant at most batchSize lookup entries are outstanding, all
\* of them of the one batch the one cycle under way is gathering.
C33_OutstandingBounded ==
    /\ OutstandingEntries <= BatchSize
    /\ \A k \in LiveKeys :
          /\ mon[k[1]].pc = "gather"
          /\ k[2] \in Page(mon[k[1]].batch)
    /\ Cardinality(LiveKeys) = OutstandingEntries

\* A full batch is outstanding in the second cycle, one entry waiting in the
\* queue behind a run, after an entry of the first cycle went through a backoff.
C33_Witness ==
    /\ OutstandingEntries = BatchSize
    /\ Len(scriptCallQueue) = 1
    /\ scriptCallQueue[1].retries >= 1
    /\ Cardinality(running) = 1
    /\ mon[2].pc = "gather"

\* The requests that wait out a backoff.
BackoffKeys(B) == {<<b.cyc, b.rec>> : b \in B}

\* C34: an entry waiting out its backoff is neither in the queue nor in
\* flight and does not count as a running script; the failure that sets its
\* timer frees the slot and leaves the queue alone; a launch while it waits
\* takes the head of the queue; and the entry comes back only when its delay
\* has run out, at the end of the queue, with one retry more.
C34_BackoffOutsideQueue ==
    /\ [](/\ \A b \in backoff :
                /\ \A e \in QueueEntries : <<e.cyc, e.rec>> # <<b.cyc, b.rec>>
                /\ \A x \in running : <<x.cyc, x.rec>> # <<b.cyc, b.rec>>
                /\ b.left \in 0..b.delay
          /\ currentScriptCount = Cardinality(running))
    /\ [][/\ \A b \in backoff :
                <<b.cyc, b.rec>> \notin BackoffKeys(backoff') =>
                    /\ b.left = 0
                    /\ scriptCallQueue' =
                          Append(scriptCallQueue,
                                 [cyc |-> b.cyc, rec |-> b.rec, retries |-> b.retries + 1])
          /\ \A b \in backoff' :
                <<b.cyc, b.rec>> \notin BackoffKeys(backoff) =>
                    /\ b.left = b.delay
                    /\ currentScriptCount' = currentScriptCount - 1
                    /\ scriptCallQueue' = scriptCallQueue
          /\ (backoff # {} /\ running' \ running # {}) =>
                /\ running' \ running = {Head(scriptCallQueue)}
                /\ backoff' = backoff]_vars

\* While a failed entry has part of its backoff behind it, the other entry of
\* the batch, launched after the failure, is on its first run.
C34_Witness ==
    \E b \in backoff, x \in running :
        /\ b.left > 0
        /\ b.left < b.delay
        /\ x.rec # b.rec
        /\ x.retries = 0
        /\ scriptCallQueue = <<>>

\* C35: when deleteClass has answered for the class's user, the pair has no
\* active tracking document; the class document goes only after the
\* findOneAndUpdate of handleClassRemoved has completed; and the request of
\* anyone else ends at its 403 with the class and every tracking document as
\* they were.
C35_DeleteUntracks ==
    /\ [](\A c \in ClassIds :
            deletePc[c] = "end" =>
                \A i \in DocsOf(c) : ~notifications[i].is_active)
    /\ [][\A c \in ClassIds :
            /\ (classDocs[c] # "none" /\ classDocs'[c] = "none") =>
                  deletePc[c] = "delete"
            /\ (deletePc[c] = "find" /\ deletePc'[c] = "idle") =>
                  /\ classDocs' = classDocs
                  /\ notifications' = notifications]_vars

\* C36: whatever the number of calls of start() and whenever they come, the
\* body of start() runs once: no second backfill, no second loop of
\* processScriptQueue, one cycle at a time; a call that returns at one of the
\* two tests changes nothing; and without the models the service never runs.
C36_StartOnce ==
    /\ [](/\ startPc \in {"idle", "init", "done"}
          /\ loop2.pc = "off"
          /\ Cardinality(ActiveCycles)
                + Cardinality({c \in Cycles : mon[c].pc = "timer"}) <= 1
          /\ currentScriptCount <= MaxConcurrentScripts
          /\ ~models =>
                /\ ~isRunning
                /\ startPc = "idle"
                /\ cycleCount = 0
                /\ loopPc = "off"
                /\ mon = [c \in Cycles |-> NoMon])
    /\ [][earlyReturns' # earlyReturns =>
            UNCHANGED <<isRunning, startPc, cycleCount, mon, monitoringTimer, proc,
                        scriptCallQueue, currentScriptCount, running, backoff,
                        loopPc, loop2, db, fill, notifications>>]_vars

\* start() was called twice more, and after those calls the one cycle is
\* gathering its batch with a script in flight.
C36_Witness ==
    /\ models
    /\ earlyReturns = MaxEarlyReturns
    /\ startPc = "done"
    /\ isRunning
    /\ mon[1].pc = "gather"
    /\ running # {}
    /\ loopPc = "sleep"

\* C37: checkDatabaseConnection reads readyState maxRetries times at most; it
\* has returned true exactly when a read found the connection ready, and then
\* reads no more; it returns false only after maxRetries reads none of which
\* found it ready; a call that sleeps comes to return; and startServer starts
\* the notification service only after a call that returned true.
C37_HealthCheckBounded ==
    /\ [](/\ healthCheck.checks <= healthCheck.maxRetries
          /\ healthCheck.retries <= healthCheck.maxRetries
          /\ (healthCheck.pc = "true") <=> healthCheck.sawReady
          /\ healthCheck.pc = "false" =>
                /\ healthCheck.checks = healthCheck.maxRetries
                /\ ~healthCheck.sawReady
          /\ startPc # "idle" => healthCheck.pc = "true")
    /\ [][healthCheck.pc \in {"true", "false"} => healthCheck' = healthCheck]_vars
    /\ (healthCheck.pc \in {"sleepTry", "sleepCatch"})
          ~> (healthCheck.pc \in {"true", "false"})

\* The fifth read, the last of the default, found the connection ready after
\* four that did not, one of which threw; the service was started and its
\* first cycle is gathering.
C37_Witness ==
    /\ healthCheck.pc = "true"
    /\ healthCheck.checks = DefaultMaxRetries
    /\ healthCheck.retries = DefaultMaxRetries - 1
    /\ startPc = "done"
    /\ mon[1].pc = "gather"


\* C38: when forgotPassword answers 500 because the email could not be sent,
\* the reset token and its expiry are unset on the user; when it answers 200,
\* the stored token is the hash of the token that was mailed and the stored
\* expiry is the one the request computed, 10 minutes after it drew the token.
C38_ForgotPasswordToken ==
    [][\A q \in Requests :
         /\ (forgot[q].pc = "clear" /\ forgot'[q].pc = "failed")
              => /\ user'.resetPasswordToken = Unset
                 /\ user'.resetPasswordExpires = Unset
         /\ (forgot[q].pc = "find" /\ forgot'[q].pc = "save")
              => forgot'[q].expires = clock + 10 * 60 * 1000
         /\ (forgot[q].pc = "mail" /\ forgot'[q].pc = "ok")
              => /\ user'.resetPasswordToken = Sha256(forgot[q].token)
                 /\ user'.resetPasswordExpires = forgot[q].expires]_vars

\* C39: a reset token is single use and time limited. resetPassword goes on
\* to change the password only when the hash of the presented token is the
\* stored one and the stored expiry lies after the present time; a successful
\* reset stores the new password and unsets token and expiry; no two
\* resetPassword requests succeed with the same token; a rejected request
\* leaves the user as it was.
C39_TokenSingleUse ==
    /\ [](\A q1, q2 \in Requests :
            (q1 # q2 /\ reset[q1].pc = "ok" /\ reset[q2].pc = "ok")
               => reset[q1].token # reset[q2].token)
    /\ [][\A q \in Requests :
            /\ (reset[q].pc = "find" /\ reset'[q].pc = "save")
                 => /\ user.resetPasswordToken = Sha256(reset[q].token)
                    /\ user.resetPasswordExpires > clock
            /\ (reset[q].pc = "save" /\ reset'[q].pc = "ok")
                 => /\ user'.password = Bcrypt(reset[q].password)
                    /\ user'.resetPasswordToken = Unset
                    /\ user'.resetPasswordExpires = Unset
            /\ (reset[q].pc # "rejected" /\ reset'[q].pc = "rejected")
                 => user' = user]_vars
====
